---- MODULE Spec2Model ----
(***************************************************************************)
(* backlightd: the monitor registry and brightness controller              *)
(* (monitors.rs), the two device backends (acpi.rs, ddc.rs), the mode      *)
(* scheduler (auto.rs), the wire commands (backlight_ipc/lib.rs), the      *)
(* daemon's accept loop and command handler (backlightd/main.rs) and the   *)
(* client's session (backlightctl/main.rs).                                *)
(***************************************************************************)
EXTENDS Integers, Sequences, FiniteSets, TLC

\* ------------------------------------------------------------------ bounds
\* Number of physical backlight devices of the machine.
NumDevices == 2

Devices == 1..NumDevices

\* Odd devices sit on the DDC bus, even ones are /sys/class/backlight entries.
KindOf(d) == IF d % 2 = 1 THEN "ddc" ELSE "acpi"

\* The maximum raw value the device reports for itself.
MaxRawOf(d) == IF KindOf(d) = "ddc" THEN 100 ELSE 255

\* Percent payloads inside the protocol's range that callers pass to set().
Percents == {0, 1, 50, 51, 100}

\* Deltas inside the protocol's range that callers pass to increase()/decrease().
Deltas == {0, 50, 100}

VARIABLES
    MONITORS,         \* monitors.rs:15  the registry, a sequence of monitors
    LAST_REFRESH,     \* monitors.rs:18  None, or Some instant once a refresh was made
    poisoned,         \* the registry mutex was held by a thread that panicked
    hw,               \* the devices themselves: raw brightness register of each
    overflow_checks,  \* build profile: integer overflow panics (TRUE) or wraps
    call,             \* the last brightness-controller call and what it did
    main_thread,      \* main.rs main(): "running" or "panicked" (the process is gone)
    handler,          \* the thread of handle_commands: "running" or "panicked"
    handler_pc,       \* where handle_commands stands: "refresh" or "recv"
    cmd_chan,         \* the mpsc channel from main() to handle_commands
    conn_log,         \* per connection main() accepted: did its decoding fail
    conn,             \* the connection main() accepted and dropped last
    dispatched,       \* the command handle_commands received last
    mode_chan,        \* the mpsc channel of mode-change signals to auto_adjust
    current_mode,     \* auto.rs:23  the scheduler's mode
    since_mode_changed, \* auto.rs:57  Instant::now() - last_time_mode_was_changed, seconds
    sched_pc,         \* where auto_adjust stands: "adjust", "recv", "check", "panicked"
    last_signal,      \* the mode of the signal auto_adjust received last, if any
    lock_owner,       \* the thread holding the MONITORS mutex, or None
    last_refresh_owner, \* the thread holding the LAST_REFRESH mutex, or None
    pc,               \* per thread of the lock-level view: its place in its operation
    idx,              \* per thread: the monitor its loop has reached
    last_error,       \* per thread: the last_error of its loop is Some
    new_list,         \* per thread: the new_monitors its refresh has built
    start,            \* the registry before the first of a run of brightness commands
    applied,          \* the brightness commands applied to it since, in order
    curve,            \* the last evaluation of the sun curve: its arguments and result
    LAST_LOCATION_REFRESH, \* location.rs:41  the in-memory location cache
    cache_file,       \* location.rs:43  the cache file on disk
    clock,            \* SystemTime::now(), seconds since the epoch
    lookup,           \* the last call of find_ip_location and what it did
    env,              \* the process environment: BACKLIGHTD_LOCATION, ..._ENABLE_LOCATION_API
    resolved,         \* the last call of find_location and what it returned
    device,           \* one monitor of either backend, as its struct stores it
    dev_call          \* the last call on that monitor (new, set_brightness)

ctlvars == <<MONITORS, LAST_REFRESH, poisoned, hw, overflow_checks, call>>

dvars == <<main_thread, handler, handler_pc, cmd_chan, conn_log, conn, dispatched>>

svars == <<current_mode, since_mode_changed, sched_pc, last_signal>>

lvars == <<lock_owner, last_refresh_owner, pc, idx, last_error, new_list>>

pvars == <<start, applied>>

locvars == <<LAST_LOCATION_REFRESH, cache_file, clock, lookup, env, resolved>>

hvars == <<device, dev_call>>

xvars == <<curve, LAST_LOCATION_REFRESH, cache_file, clock, lookup, env, resolved,
           device, dev_call>>

vars == <<MONITORS, LAST_REFRESH, poisoned, hw, overflow_checks, call,
          main_thread, handler, handler_pc, cmd_chan, conn_log, conn, dispatched,
          mode_chan, current_mode, since_mode_changed, sched_pc, last_signal,
          lock_owner, last_refresh_owner, pc, idx, last_error, new_list,
          start, applied,
          curve, LAST_LOCATION_REFRESH, cache_file, clock, lookup, env, resolved,
          device, dev_call>>

\* BacklightMode: the variants by their serde index.
Auto == 0

Manual == 1

\* LAST_REFRESH: Option<Instant>. The instant itself is never compared here.
None == "None"

SomeInstant == "Some(Instant)"

Min(a, b) == IF a < b THEN a ELSE b
Max(a, b) == IF a > b THEN a ELSE b

\* `x as i8` of a u8 value.
AsI8(x) == IF x >= 128 THEN x - 256 ELSE x

\* ------------------------------------------------------- device capability
\* BacklightAcpiDevice::new / BacklightDdcDevice::new: the percent a freshly
\* discovered monitor stores, (raw * 100 / max) as u8 with u16 arithmetic.
\* -1 stands for a panic of the discovering thread.
NewPercent(raw, max) ==
    IF max = 0 THEN -1
    ELSE IF raw * 100 > 65535 /\ overflow_checks THEN -1
    ELSE (((raw * 100) % 65536) \div max) % 256

NewMonitor(d, h) ==
    [dev |-> d, kind |-> KindOf(d), max |-> MaxRawOf(d), raw |-> h[d],
     pct |-> NewPercent(h[d], MaxRawOf(d))]

\* (percent as f64 / 100. * max as f64) as u16: the cast truncates. For the two
\* maxima of MaxRawOf and percents up to 100 the f64 product is below the exact
\* integer at 29, 57 and 58 percent of 100 only (28.999999999999996, ...).
RawOfPercent(percent, max) ==
    IF max = 100 /\ percent \in {29, 57, 58} THEN percent - 1
    ELSE (percent * max) \div 100

\* A set_brightness that stores the new values before it writes to the device.
set_brightness_eager(m, percent, ok) ==
    IF percent > 100 THEN [st |-> "panic", m |-> m]
    ELSE [st |-> IF ok THEN "ok" ELSE "err",
          m |-> [m EXCEPT !.raw = (percent * m.max) \div 100, !.pct = percent]]

\* BacklightDevice::set_brightness of both backends. ok: the device write works.
\* st is "ok", "err" (the Err returned) or "panic" (the assertion).
set_brightness(m, percent, ok) ==
    IF percent > 100 THEN [st |-> "panic", m |-> m]
    ELSE IF ~ok THEN [st |-> "err", m |-> m]
    ELSE [st |-> "ok",
          m |-> [m EXCEPT !.raw = RawOfPercent(percent, m.max), !.pct = percent]]

\* BacklightDevice::turn_off / turn_on: DDC writes the power feature, the ACPI
\* backend is todo!().
set_power(m, ok) ==
    IF m.kind = "acpi" THEN "panic" ELSE IF ok THEN "ok" ELSE "err"

\* No monitor constructed yet.
NoDevice == [present |-> FALSE, max |-> 0, raw |-> 0, pct |-> 0]

\* wrote: the raw value handed to the device by a write that worked.
DevCall(op, st, wrote) == [op |-> op, st |-> st, wrote |-> wrote]

NoDevCall == DevCall("none", "none", <<>>)

\* ---------------------------------------------------- brightness controller
\* increase_brightness_percent without its clamp to 100.
increase_target_unclamped(m, percent) == (m.pct + percent) % 256

\* The value increase_brightness_percent hands to set_brightness for monitor m:
\* u8 addition, then the clamp to 100. -1: the addition overflowed and panicked.
increase_target(m, percent) ==
    LET s == m.pct + percent IN
    IF s > 255 /\ overflow_checks THEN -1
    ELSE Min(100, s % 256)

\* The value decrease_brightness_percent (monitors.rs) hands to set_brightness:
\* both operands cast to i8, i8 subtraction, the clamp to 1, then `as u8`.
decrease_target(m, percent) ==
    LET s == AsI8(m.pct) - AsI8(percent) IN
    IF (s > 127 \/ s < -128) /\ overflow_checks THEN -1
    ELSE LET w == IF s > 127 THEN s - 256 ELSE IF s < -128 THEN s + 256 ELSE s
         IN Max(1, w)

\* The same in main.rs: the subtraction is done in isize.
main_decrease_target(m, percent) ==
    Max(1, m.pct - percent) % 256

Target(op, arg, m) ==
    CASE op = "set" -> arg
      [] op = "inc" -> increase_target(m, arg)
      [] op = "dec" -> decrease_target(m, arg)
      [] op = "main_set" -> arg
      [] op = "main_inc" -> increase_target(m, arg)
      [] op = "main_dec" -> main_decrease_target(m, arg)

\* The `for monitor in MONITORS.lock().unwrap().iter_mut()` loop of a brightness
\* operation, from monitor i on. outs[i]: the write to monitor i works.
\* failfast: the body is `monitor.set_brightness(..)?` (main.rs); otherwise the
\* error is kept in last_error and the loop goes on (monitors.rs).
\* log holds one entry per monitor the loop reached.
RECURSIVE brightness_loop(_, _, _, _, _, _, _, _)
brightness_loop(reg, h, i, op, arg, outs, failfast, log) ==
    IF i > Len(reg) THEN [reg |-> reg, hw |-> h, log |-> log]
    ELSE LET t == Target(op, arg, reg[i])
             r == IF t < 0 THEN [st |-> "panic", m |-> reg[i]]
                  ELSE set_brightness(reg[i], t, outs[i])
             reg2 == [reg EXCEPT ![i] = r.m]
             h2 == IF r.st = "ok" THEN [h EXCEPT ![reg[i].dev] = r.m.raw] ELSE h
             log2 == Append(log, [dev |-> reg[i].dev, target |-> t, st |-> r.st])
         IN IF r.st = "panic" \/ (r.st = "err" /\ failfast)
            THEN [reg |-> reg2, hw |-> h2, log |-> log2]
            ELSE brightness_loop(reg2, h2, i + 1, op, arg, outs, failfast, log2)

\* The loop of turn_off / turn_on. The power feature is not the brightness
\* register: the loop changes neither the registry nor hw.
RECURSIVE power_loop(_, _, _, _)
power_loop(reg, i, outs, log) ==
    IF i > Len(reg) THEN log
    ELSE LET st == set_power(reg[i], outs[i])
             log2 == Append(log, [dev |-> reg[i].dev, target |-> 0, st |-> st])
         IN IF st = "panic" THEN log2
            ELSE power_loop(reg, i + 1, outs, log2)

HasSt(log, st) == \E i \in 1..Len(log) : log[i].st = st

ResultOf(log) ==
    IF HasSt(log, "panic") THEN "panic" ELSE IF HasSt(log, "err") THEN "err" ELSE "ok"

\* ----------------------------------------------------------------- registry
RECURSIVE Ascending(_)
Ascending(S) ==
    IF S = {} THEN <<>>
    ELSE LET x == CHOOSE y \in S : \A z \in S : y <= z
         IN <<x>> \o Ascending(S \ {x})

\* The order of enumeration: the DDC displays, then the ACPI directory entries.
Enumerate(S) ==
    Ascending({d \in S : KindOf(d) = "ddc"}) \o Ascending({d \in S : KindOf(d) = "acpi"})

\* The replacement collection refresh_monitors_list builds from the devices
\* whose construction succeeded (found), reading their registers.
new_monitors(found, h) ==
    LET ds == Enumerate(found) IN [i \in 1..Len(ds) |-> NewMonitor(ds[i], h)]

Pcts(reg) == [i \in 1..Len(reg) |-> reg[i].pct]

NoConn == [id |-> 0, sent |-> <<>>, read |-> <<>>, err |-> FALSE, responses |-> 0]

NoDispatch == [cmd |-> [tag |-> "none", arg |-> 0], conn |-> 0, result |-> "none",
               wrote |-> FALSE]

NoCall == [op |-> "none", arg |-> 0, before |-> <<>>, log |-> <<>>,
           refreshes |-> 0, log2 |-> <<>>, result |-> "none", ret |-> 0]

Begin(op, arg) == [NoCall EXCEPT !.op = op, !.arg = arg, !.before = Pcts(MONITORS)]

OutsOf(reg) == [1..Len(reg) -> BOOLEAN]

Healthy(reg) == [i \in 1..Len(reg) |-> TRUE]

\* MONITORS.lock().unwrap() / .expect() on a poisoned mutex: the caller panics.
LockPanics(op, arg) ==
    /\ poisoned
    /\ call' = [Begin(op, arg) EXCEPT !.result = "panic"]
    /\ UNCHANGED <<MONITORS, LAST_REFRESH, poisoned, hw, overflow_checks>>

\* refresh_monitors_list: enumerate, then swap under the lock and record the
\* instant.
RefreshCall ==
    \/ LockPanics("refresh", 0)
    \/ /\ ~poisoned
       /\ \E found \in SUBSET Devices :
            /\ MONITORS' = new_monitors(found, hw)
            /\ LAST_REFRESH' = SomeInstant
            /\ call' = [Begin("refresh", 0) EXCEPT !.refreshes = 1, !.result = "ok"]
       /\ UNCHANGED <<poisoned, hw, overflow_checks>>

\* What a brightness operation of monitors.rs does as a whole: the loop, and
\* on an error the refresh and the Err. faults: device writes may fail.
BrightnessCall(op, arg, faults) ==
    \/ LockPanics(op, arg)
    \/ /\ ~poisoned
       /\ \E outs \in (IF faults THEN OutsOf(MONITORS) ELSE {Healthy(MONITORS)}),
             found \in SUBSET Devices :
            LET r == brightness_loop(MONITORS, hw, 1, op, arg, outs, FALSE, <<>>)
                c == [Begin(op, arg) EXCEPT !.log = r.log, !.result = ResultOf(r.log)]
            IN /\ hw' = r.hw
               /\ UNCHANGED overflow_checks
               /\ poisoned' = (c.result = "panic")
               /\ IF c.result = "err"
                  THEN /\ MONITORS' = new_monitors(found, r.hw)
                       /\ LAST_REFRESH' = SomeInstant
                       /\ call' = [c EXCEPT !.refreshes = 1]
                  ELSE /\ found = {}
                       /\ MONITORS' = r.reg
                       /\ call' = c
                       /\ UNCHANGED LAST_REFRESH

\* The same operations as main.rs defines them: `?` leaves the loop at the
\* first failed write, and nothing is refreshed. faults: device writes may fail.
MainBrightnessCall(op, arg, faults) ==
    \/ LockPanics(op, arg)
    \/ /\ ~poisoned
       /\ \E outs \in (IF faults THEN OutsOf(MONITORS) ELSE {Healthy(MONITORS)}) :
            LET r == brightness_loop(MONITORS, hw, 1, op, arg, outs, TRUE, <<>>)
            IN /\ \A i \in 1..Len(MONITORS) : i > Len(r.log) => outs[i]
               /\ hw' = r.hw
               /\ MONITORS' = r.reg
               /\ poisoned' = HasSt(r.log, "panic")
               /\ call' = [Begin(op, arg) EXCEPT !.log = r.log, !.result = ResultOf(r.log)]
               /\ UNCHANGED <<LAST_REFRESH, overflow_checks>>

\* turn_off / turn_on: the loop; on an error the refresh and the loop again
\* over the refreshed registry.
PowerCall(op) ==
    \/ LockPanics(op, 0)
    \/ /\ ~poisoned
       /\ \E outs \in OutsOf(MONITORS), found \in SUBSET Devices :
            LET log == power_loop(MONITORS, 1, outs, <<>>)
                c == [Begin(op, 0) EXCEPT !.log = log, !.result = ResultOf(log)]
            IN /\ UNCHANGED <<hw, overflow_checks>>
               /\ IF c.result = "err"
                  THEN LET reg2 == new_monitors(found, hw) IN
                       \E outs2 \in OutsOf(reg2) :
                           LET log2 == power_loop(reg2, 1, outs2, <<>>) IN
                           /\ MONITORS' = reg2
                           /\ LAST_REFRESH' = SomeInstant
                           /\ poisoned' = HasSt(log2, "panic")
                           /\ call' = [c EXCEPT !.refreshes = 1, !.log2 = log2,
                                                !.result = ResultOf(log2)]
                  ELSE /\ found = {}
                       /\ poisoned' = (c.result = "panic")
                       /\ call' = c
                       /\ UNCHANGED <<MONITORS, LAST_REFRESH>>

RECURSIVE SumPct(_, _)
SumPct(reg, i) == IF i > Len(reg) THEN 0 ELSE reg[i].pct + SumPct(reg, i + 1)

\* The average rounded to the nearest percent instead of cut.
average_rounded(reg) == ((2 * SumPct(reg, 1) + Len(reg)) \div (2 * Len(reg))) % 256

\* monitors.rs:235-241: the usize sum of get_brightness() over the registry,
\* divided by monitors.len(), `as u8`. Not defined for an empty registry.
average(reg) == (SumPct(reg, 1) \div Len(reg)) % 256

\* get_average_brightness as a whole: the lock is held from the first line to
\* the last; on an empty registry the division by monitors.len() panics.
AverageCall ==
    \/ LockPanics("avg", 0)
    \/ /\ ~poisoned
       /\ IF Len(MONITORS) = 0
          THEN /\ call' = [Begin("avg", 0) EXCEPT !.result = "panic"]
               /\ poisoned' = TRUE
          ELSE /\ call' = [Begin("avg", 0) EXCEPT !.result = "ok",
                                                 !.ret = average(MONITORS)]
               /\ UNCHANGED poisoned
       /\ UNCHANGED <<MONITORS, LAST_REFRESH, hw, overflow_checks>>

\* ------------------------------------------------------------ thread starts
\* The threads of the lock-level view and what each runs.
Threads == {"session", "scheduler", "refresher"}

\* main(): the listener is bound and handle_commands spawned; nothing accepted.
DaemonStart ==
    /\ main_thread = "running"
    /\ handler = "running"
    /\ handler_pc = "refresh"
    /\ cmd_chan = <<>>
    /\ conn_log = <<>>
    /\ conn = NoConn
    /\ dispatched = NoDispatch
    /\ mode_chan = <<>>

\* auto_adjust before its loop: Auto, last changed now.
SchedStart ==
    /\ current_mode = Auto
    /\ since_mode_changed = 0
    /\ sched_pc = "adjust"
    /\ last_signal = <<>>

LockStart ==
    /\ lock_owner = None
    /\ last_refresh_owner = None
    /\ pc = [t \in Threads |-> "idle"]
    /\ idx = [t \in Threads |-> 0]
    /\ last_error = [t \in Threads |-> FALSE]
    /\ new_list = [t \in Threads |-> <<>>]

\* ------------------------------------------------------------ the sun curve
\* A NaiveTime is its count of milliseconds since midnight.
hms(h, m, s) == ((h * 60 + m) * 60 + s) * 1000

\* NaiveTime + Duration wraps around midnight.
plus(t, d) == (t + d) % hms(24, 0, 0)

\* TimeDelta::num_seconds: the whole seconds of a span, its fraction dropped.
num_seconds(span) == span \div 1000

BRIGHTNESS_TRANSITION_DURATION == hms(4, 0, 0)

FALLBACK_BRIGHTNESS_UP_BEGIN == hms(6, 0, 0)

FALLBACK_BRIGHTNESS_DOWN_BEGIN == hms(18, 0, 0)

\* ((elapsed / duration * 99.) + 1.).round() as u8, round being half away from
\* zero.  Over a zero duration the quotient is NaN (0/0) or infinite, and
\* `as u8` makes 0 of NaN and 255 of +infinity.
ramp_up(elapsed, duration) ==
    IF duration = 0
    THEN IF elapsed = 0 THEN 0 ELSE 255
    ELSE (198 * elapsed + 3 * duration) \div (2 * duration)

\* ((1. - elapsed / duration) * 99. + 1.).round() as u8; `as u8` makes 0 of
\* NaN and of -infinity.
ramp_down(elapsed, duration) ==
    IF duration = 0
    THEN 0
    ELSE (198 * (duration - elapsed) + 3 * duration) \div (2 * duration)

Brightness(v) == [status |-> "ok", value |-> v]

CurvePanic == [status |-> "panic", value |-> 0]

compute_brightness_percentage(now, up_begin, up_end, down_begin, down_end) ==
    IF ~(up_begin < up_end) \/ ~(up_end < down_begin) \/ ~(down_begin < down_end)
    THEN CurvePanic
    ELSE IF now < up_begin \/ now > down_end THEN Brightness(1)
    ELSE IF now > up_end /\ now < down_begin THEN Brightness(100)
    ELSE IF now >= up_begin /\ now <= up_end
    THEN Brightness(ramp_up(num_seconds(now - up_begin),
                            num_seconds(up_end - up_begin)))
    ELSE IF now >= down_begin /\ now <= down_end
    THEN Brightness(ramp_down(num_seconds(now - down_begin),
                              num_seconds(down_end - down_begin)))
    ELSE CurvePanic

\* An evaluation of the curve: the arguments it was given and what came back.
Evaluation(now, q) ==
    [now |-> now, up_begin |-> q[1], up_end |-> q[2],
     down_begin |-> q[3], down_end |-> q[4],
     result |-> compute_brightness_percentage(now, q[1], q[2], q[3], q[4])]

\* The whole hours of the day.
Hours == {hms(h, 0, 0) : h \in 0..23}

\* Sunrise and sunset of the day at the configured place, local time: an
\* equinox, a winter day, a summer day whose sun sets after 20:00, and a day
\* shorter than the ramp.
SunTimes ==
    { <<hms(5, 30, 0), hms(17, 0, 0)>>, <<hms(8, 0, 0), hms(16, 0, 0)>>,
      <<hms(4, 0, 0), hms(21, 30, 0)>>, <<hms(10, 30, 0), hms(13, 30, 0)>> }

NoCurve ==
    [now |-> 0, up_begin |-> 0, up_end |-> 0, down_begin |-> 0, down_end |-> 0,
     result |-> [status |-> "idle", value |-> 0]]

\* ------------------------------------------------------- the location cache
IP_BASED_LOCATION_REFRESH_INTERVAL == 43200

\* LastKnownLocation::default()
DefaultLocation == [latitude |-> 0, longitude |-> 0, timestamp |-> 0]

\* What read_to_string and toml::from_str make of the cache file: "missing"
\* (NotFound), "unreadable" (another io error), "invalid" (not the toml of a
\* LastKnownLocation) or "toml" with the three fields.
FileOf(kind, loc) ==
    [kind |-> kind, latitude |-> loc.latitude, longitude |-> loc.longitude,
     timestamp |-> loc.timestamp]

NoFile == FileOf("missing", DefaultLocation)

\* toml::to_string of the in-memory cache.
to_toml(loc) == FileOf("toml", loc)

\* The first block of find_ip_location: on timestamp == 0 the file's fields
\* are copied into the in-memory cache, when it reads and parses.
load_cache(mem, file) ==
    IF mem.timestamp = 0 /\ file.kind = "toml"
    THEN [latitude |-> file.latitude, longitude |-> file.longitude,
          timestamp |-> file.timestamp]
    ELSE mem

\* A resolver that asks the remote service on every call.
must_lookup_always(now, loc) == TRUE

\* now - last_known_location.timestamp > IP_BASED_LOCATION_REFRESH_INTERVAL
must_lookup(now, loc) == now - loc.timestamp > IP_BASED_LOCATION_REFRESH_INTERVAL

NoLookup ==
    [status |-> "idle", remote |-> FALSE, cache |-> DefaultLocation, now |-> 0,
     ret |-> <<>>]

\* ------------------------------------------------- the location, as configured
\* What env::var makes of a variable: NotPresent ("unset"), NotUnicode, or Ok
\* with its text.  The text of BACKLIGHTD_LOCATION is a sequence of characters,
\* the text of BACKLIGHTD_ENABLE_LOCATION_API a string.
EnvOf(kind, text) == [kind |-> kind, text |-> text]

NoEnv == [location |-> EnvOf("unset", <<>>), enable |-> EnvOf("unset", "")]

\* str::trim, of which the model's texts only have spaces to lose.
RECURSIVE trim_start(_)
trim_start(s) == IF s # <<>> /\ Head(s) = " " THEN trim_start(Tail(s)) ELSE s

RECURSIVE trim_end(_)
trim_end(s) ==
    IF s # <<>> /\ s[Len(s)] = " " THEN trim_end(SubSeq(s, 1, Len(s) - 1)) ELSE s

trim(s) == trim_end(trim_start(s))

\* str::split_once(','): the text before and after the first comma, or
\* nothing when there is no comma.
split_once(s) ==
    LET commas == {i \in 1..Len(s) : s[i] = ","}
    IN  IF commas = {} THEN <<>>
        ELSE LET i == CHOOSE c \in commas : \A o \in commas : c <= o
             IN  <<SubSeq(s, 1, i - 1), SubSeq(s, i + 1, Len(s))>>

DigitOf(c) == CASE c = "2" -> 2 [] c = "4" -> 4 [] c = "8" -> 8 [] OTHER -> -1

RECURSIVE DecimalOf(_)
DecimalOf(s) ==
    IF s = <<>> THEN 0 ELSE 10 * DecimalOf(SubSeq(s, 1, Len(s) - 1)) + DigitOf(s[Len(s)])

\* str::parse::<f64> over the model's characters (digits, space, comma, a
\* letter): a number is a non-empty run of digits, anything else an error.
parse(s) ==
    IF s # <<>> /\ \A i \in 1..Len(s) : DigitOf(s[i]) >= 0
    THEN <<DecimalOf(s)>>
    ELSE <<>>

ConfigResult(status, ret) == [status |-> status, ret |-> ret]

\* A reading of the configuration that takes a malformed value for none.
find_location_from_config_lenient(v) ==
    IF v.kind # "set" \/ split_once(v.text) = <<>>
    THEN ConfigResult("NotPresent", <<>>)
    ELSE LET lat == parse(trim(split_once(v.text)[1]))
             long == parse(trim(split_once(v.text)[2]))
         IN  IF lat = <<>> \/ long = <<>>
             THEN ConfigResult("NotPresent", <<>>)
             ELSE ConfigResult("ok", <<lat[1], long[1]>>)

\* find_location_from_config: Ok((lat, long)), the VarError::NotPresent error,
\* or another error.
find_location_from_config(v) ==
    IF v.kind = "unset" THEN ConfigResult("NotPresent", <<>>)
    ELSE IF v.kind = "notunicode" THEN ConfigResult("err", <<>>)
    ELSE IF split_once(v.text) = <<>> THEN ConfigResult("err", <<>>)
    ELSE LET lat == parse(trim(split_once(v.text)[1]))
             long == parse(trim(split_once(v.text)[2]))
         IN  IF lat = <<>> \/ long = <<>>
             THEN ConfigResult("err", <<>>)
             ELSE ConfigResult("ok", <<lat[1], long[1]>>)

\* allow_api_call of find_location: "yes", "no", or the bail on NotUnicode.
allow_api_call(v) ==
    IF v.kind = "unset" THEN "yes"
    ELSE IF v.kind = "notunicode" THEN "err"
    ELSE IF v.text \in {"1", "y", "yes"} THEN "yes" ELSE "no"

NoResolved ==
    [status |-> "idle", ret |-> <<>>, ip_called |-> FALSE, remote |-> FALSE,
     fetched |-> FALSE]

PairStart ==
    /\ start = <<>>
    /\ applied = <<>>

\* The scheduler's helpers before their first call: no curve evaluated, the
\* location cache as LastKnownLocation::default() leaves it, no cache file.
HelperStart ==
    /\ curve = NoCurve
    /\ LAST_LOCATION_REFRESH = DefaultLocation
    /\ cache_file = NoFile
    /\ clock = 0
    /\ lookup = NoLookup
    /\ env = NoEnv
    /\ resolved = NoResolved
    /\ device = NoDevice
    /\ dev_call = NoDevCall

\* ------------------------------------------- the controller, one call at a time
\* One call of the brightness controller is made on the registry of Init.
refresh_monitors_list ==
    /\ call.op = "none"
    /\ RefreshCall
    /\ UNCHANGED <<dvars, mode_chan, svars, lvars, pvars, xvars>>

set_brightness_percent ==
    /\ call.op = "none"
    /\ \E p \in Percents : BrightnessCall("set", p, TRUE)
    /\ UNCHANGED <<dvars, mode_chan, svars, lvars, pvars, xvars>>

increase_brightness_percent ==
    /\ call.op = "none"
    /\ \E d \in Deltas : BrightnessCall("inc", d, TRUE)
    /\ UNCHANGED <<dvars, mode_chan, svars, lvars, pvars, xvars>>

decrease_brightness_percent ==
    /\ call.op = "none"
    /\ \E d \in Deltas : BrightnessCall("dec", d, TRUE)
    /\ UNCHANGED <<dvars, mode_chan, svars, lvars, pvars, xvars>>

main_set_brightness_percent ==
    /\ call.op = "none"
    /\ \E p \in Percents : MainBrightnessCall("main_set", p, TRUE)
    /\ UNCHANGED <<dvars, mode_chan, svars, lvars, pvars, xvars>>

main_increase_brightness_percent ==
    /\ call.op = "none"
    /\ \E d \in Deltas : MainBrightnessCall("main_inc", d, TRUE)
    /\ UNCHANGED <<dvars, mode_chan, svars, lvars, pvars, xvars>>

main_decrease_brightness_percent ==
    /\ call.op = "none"
    /\ \E d \in Deltas : MainBrightnessCall("main_dec", d, TRUE)
    /\ UNCHANGED <<dvars, mode_chan, svars, lvars, pvars, xvars>>

turn_off ==
    /\ call.op = "none"
    /\ PowerCall("turn_off")
    /\ UNCHANGED <<dvars, mode_chan, svars, lvars, pvars, xvars>>

turn_on ==
    /\ call.op = "none"
    /\ PowerCall("turn_on")
    /\ UNCHANGED <<dvars, mode_chan, svars, lvars, pvars, xvars>>

get_average_brightness_call ==
    /\ call.op = "none"
    /\ AverageCall
    /\ UNCHANGED <<dvars, mode_chan, svars, lvars, pvars, xvars>>

\* A monitor as set_brightness(p) leaves it.
SetMonitor(d, p) ==
    [dev |-> d, kind |-> KindOf(d), max |-> MaxRawOf(d),
     raw |-> RawOfPercent(p, MaxRawOf(d)), pct |-> p]

\* The percents the monitors of Init hold.
InitPercents == {0, 1, 50, 51, 100}

\* A registry as refreshes and set() calls leave it. ps[d] is the percent
\* device d's monitor was last set to, -1 when d is not in the registry.
RegistryOf(ps) ==
    LET ds == Enumerate({d \in Devices : ps[d] >= 0})
    IN [i \in 1..Len(ds) |-> SetMonitor(ds[i], ps[ds[i]])]

HwOf(ps) ==
    [d \in Devices |-> IF ps[d] >= 0 THEN RawOfPercent(ps[d], MaxRawOf(d)) ELSE 0]

CtlInit ==
    \E ps \in [Devices -> {-1} \cup InitPercents] :
        /\ MONITORS = RegistryOf(ps)
        /\ hw = HwOf(ps)
        /\ LAST_REFRESH = SomeInstant
        /\ poisoned \in BOOLEAN
        /\ overflow_checks \in BOOLEAN
        /\ call = NoCall
        /\ DaemonStart
        /\ SchedStart
        /\ LockStart
        /\ PairStart
        /\ HelperStart

CtlNext ==
    \/ refresh_monitors_list
    \/ set_brightness_percent
    \/ increase_brightness_percent
    \/ decrease_brightness_percent
    \/ main_set_brightness_percent
    \/ main_increase_brightness_percent
    \/ main_decrease_brightness_percent
    \/ turn_off
    \/ turn_on
    \/ get_average_brightness_call

Spec == CtlInit /\ [][CtlNext]_vars

\* ------------------------------------------------------------ wire protocol
\* BacklightCommand, in declaration order: serde's variant index is the position.
Variants == <<"SetBrightness", "IncreaseBrightness", "DecreaseBrightness",
              "TurnOffMonitors", "TurnOnMonitors", "Refresh", "SetMode", "GetInfo",
              "GetInfoResponse", "NotifyShutdown">>

Modes == {Auto, Manual}

ByteVariants == {"SetBrightness", "IncreaseBrightness", "DecreaseBrightness",
                 "GetInfoResponse"}

IndexIn(seq, x) == CHOOSE i \in 1..Len(seq) : seq[i] = x

Cmd(tag, arg) == [tag |-> tag, arg |-> arg]

\* A u32 as bincode writes it: four bytes, little endian.
U32(n) == <<n % 256, (n \div 256) % 256, (n \div 65536) % 256, (n \div 16777216) % 256>>

FromU32(b, at) == b[at] + 256 * b[at + 1] + 65536 * b[at + 2] + 16777216 * b[at + 3]

\* BacklightCommand::serialize_into: the variant index, then the payload.
serialize_into(cmd) ==
    U32(IndexIn(Variants, cmd.tag) - 1) \o
        (IF cmd.tag \in ByteVariants THEN <<cmd.arg>>
         ELSE IF cmd.tag = "SetMode" THEN U32(cmd.arg)
         ELSE <<>>)

\* BacklightCommand::deserialize_from on the bytes a stream holds: the first
\* message, or an error when the bytes end early or name no variant. Any byte
\* is accepted as a u8 payload.
deserialize_from(bytes) ==
    IF Len(bytes) < 4 \/ FromU32(bytes, 1) >= Len(Variants) THEN [ok |-> FALSE]
    ELSE LET tag == Variants[FromU32(bytes, 1) + 1] IN
         IF tag \in ByteVariants
         THEN IF Len(bytes) < 5 THEN [ok |-> FALSE]
              ELSE [ok |-> TRUE, cmd |-> Cmd(tag, bytes[5])]
         ELSE IF tag = "SetMode"
         THEN IF Len(bytes) < 8 \/ FromU32(bytes, 5) \notin Modes THEN [ok |-> FALSE]
              ELSE [ok |-> TRUE, cmd |-> Cmd(tag, FromU32(bytes, 5))]
         ELSE [ok |-> TRUE, cmd |-> Cmd(tag, 0)]

RECURSIVE Flatten(_)
Flatten(ss) == IF ss = <<>> THEN <<>> ELSE Head(ss) \o Flatten(Tail(ss))

\* ------------------------------------------------------------------ clients
\* The brightness commands backlightctl builds from --brightness N%, +N%, -N%,
\* after its own check that N <= 100.
CtlBrightness == {Cmd("SetBrightness", 50), Cmd("IncreaseBrightness", 50),
                  Cmd("DecreaseBrightness", 100)}

\* What backlightctl writes before it blocks reading the GetInfo response:
\* Refresh, SetMode(Auto), the brightness command (each if asked for), GetInfo.
backlightctl(refresh, auto, brightness) ==
    (IF refresh THEN <<Cmd("Refresh", 0)>> ELSE <<>>) \o
    (IF auto THEN <<Cmd("SetMode", Auto)>> ELSE <<>>) \o
    brightness \o <<Cmd("GetInfo", 0)>>

CtlSessions ==
    {backlightctl(r, a, b) : r \in BOOLEAN, a \in BOOLEAN, b \in {<<>>}} \cup
    {backlightctl(r, FALSE, <<c>>) : r \in BOOLEAN, c \in CtlBrightness}

\* Byte streams of other local clients of the world-writable socket: brightness
\* commands with a payload over 100, a truncated message, an unknown variant,
\* and a connection closed without a byte.
OverRange == {Cmd("SetBrightness", 200), Cmd("IncreaseBrightness", 200),
              Cmd("DecreaseBrightness", 200), Cmd("SetBrightness", 101)}

BadStreams == {<<0, 0, 0, 0>>, <<77, 0, 0, 0>>, <<>>}

\* A session: the commands the client meant (sent) and the bytes on the stream.
Sessions ==
    {[sent |-> ss, bytes |-> Flatten([i \in 1..Len(ss) |-> serialize_into(ss[i])])] :
        ss \in CtlSessions \cup {<<c>> : c \in OverRange}} \cup
    {[sent |-> <<>>, bytes |-> b] : b \in BadStreams}

\* ------------------------------------------------------------------- daemon
\* Connections main() accepts before the model stops following it.
MaxConns == 2

BrightnessTags == {"SetBrightness", "IncreaseBrightness", "DecreaseBrightness"}

\* main() unwrapping the result of deserialize_from instead of matching on it.
main_serve_unwrap(res) ==
    IF res.ok THEN [send |-> <<res.cmd>>, thread |-> "running"]
    ELSE [send |-> <<>>, thread |-> "panicked"]

\* main(), the body of `for stream in listener.incoming()` past the liveness
\* check: one deserialize_from on the stream; Ok goes to the channel, Err is
\* printed. The stream is dropped at the end of the iteration. Gives the
\* commands sent to the channel and the state of the main thread.
main_serve(res) ==
    IF res.ok THEN [send |-> <<res.cmd>>, thread |-> "running"]
    ELSE [send |-> <<>>, thread |-> "running"]

main_accept ==
    /\ main_thread = "running"
    /\ handler = "panicked" \/ Len(conn_log) < MaxConns
    /\ IF handler = "panicked"
       THEN \* command_handler_thread.is_finished(): panic, the process ends
            /\ main_thread' = "panicked"
            /\ UNCHANGED <<cmd_chan, conn_log, conn>>
       ELSE \E s \in Sessions :
            LET res == deserialize_from(s.bytes)
                m == main_serve(res)
                id == Len(conn_log) + 1
            IN /\ main_thread' = m.thread
               /\ cmd_chan' = cmd_chan \o [i \in 1..Len(m.send) |->
                                               [cmd |-> m.send[i], conn |-> id]]
               /\ conn_log' = Append(conn_log, ~res.ok)
               /\ conn' = [id |-> id, sent |-> s.sent, read |-> m.send, err |-> ~res.ok,
                           responses |-> 0]
    /\ UNCHANGED <<handler, handler_pc, dispatched, mode_chan, svars, lvars, pvars, xvars>>
    /\ UNCHANGED ctlvars

\* refresh_monitors_list of main.rs: enumerate and swap; no instant is kept.
\* The daemon is followed on a machine whose devices all answer (failing
\* devices are followed call by call in Spec).
main_refresh_monitors_list ==
    \E found \in {Devices} :
        /\ MONITORS' = new_monitors(found, hw)
        /\ UNCHANGED <<LAST_REFRESH, poisoned, hw, overflow_checks, call>>

\* handle_commands, the top of the outer loop.
handler_refresh ==
    /\ main_thread = "running" /\ handler = "running" /\ handler_pc = "refresh"
    /\ main_refresh_monitors_list
    /\ handler_pc' = "recv"
    /\ UNCHANGED <<main_thread, handler, cmd_chan, conn_log, conn, dispatched, mode_chan>>
    /\ UNCHANGED <<svars, lvars, pvars, xvars>>

\* recv_timeout(MONITORS_REFRESH_INTERVAL) times out: back to the refresh.
handler_timeout ==
    /\ main_thread = "running" /\ handler = "running" /\ handler_pc = "recv"
    /\ cmd_chan = <<>>
    /\ handler_pc' = "refresh"
    /\ UNCHANGED <<main_thread, handler, cmd_chan, conn_log, conn, dispatched, mode_chan>>
    /\ UNCHANGED <<svars, lvars, pvars, xvars>>
    /\ UNCHANGED ctlvars

MainOpOf(tag) ==
    CASE tag = "SetBrightness" -> "main_set"
      [] tag = "IncreaseBrightness" -> "main_inc"
      [] tag = "DecreaseBrightness" -> "main_dec"

\* handle_commands, Ok(command): the match of main.rs has the arms
\* SetBrightness, IncreaseBrightness, DecreaseBrightness and Refresh. It sends
\* nothing to the mode scheduler and writes nothing to any stream; a command
\* of another variant reaches no code. dispatched keeps the command, the
\* connection it came from and what became of it.
handler_dispatch ==
    /\ main_thread = "running" /\ handler = "running" /\ handler_pc = "recv"
    /\ cmd_chan # <<>>
    /\ LET cmd == Head(cmd_chan).cmd IN
       /\ cmd_chan' = Tail(cmd_chan)
       /\ IF cmd.tag \in BrightnessTags
          THEN MainBrightnessCall(MainOpOf(cmd.tag), cmd.arg, FALSE)
          ELSE IF cmd.tag = "Refresh" THEN main_refresh_monitors_list
          ELSE UNCHANGED ctlvars
       /\ dispatched' =
             [cmd |-> cmd, conn |-> Head(cmd_chan).conn,
              result |-> IF cmd.tag \in BrightnessTags THEN call'.result
                         ELSE IF cmd.tag = "Refresh" THEN "ok" ELSE "no arm",
              wrote |-> cmd.tag \in BrightnessTags /\ HasSt(call'.log, "ok")]
       /\ handler' = IF cmd.tag \in BrightnessTags /\ call'.result = "panic"
                     THEN "panicked" ELSE "running"
    /\ UNCHANGED <<main_thread, handler_pc, conn_log, conn, mode_chan, svars, lvars, pvars, xvars>>

DaemonInit ==
    /\ MONITORS = <<>>
    /\ LAST_REFRESH = None
    /\ poisoned = FALSE
    /\ hw = [d \in Devices |-> RawOfPercent(50, MaxRawOf(d))]
    /\ overflow_checks \in BOOLEAN
    /\ call = NoCall
    /\ DaemonStart
    /\ SchedStart
    /\ LockStart
    /\ PairStart
    /\ HelperStart

DaemonNext ==
    \/ main_accept
    \/ handler_refresh
    \/ handler_timeout
    \/ handler_dispatch

SpecDaemon == DaemonInit /\ [][DaemonNext]_vars

\* The thread of handle_commands keeps running while it can. main() moves only
\* when a client connects: listener.incoming() blocks until then, and nothing
\* makes a client connect.
HandlerStep == handler_refresh \/ handler_timeout \/ handler_dispatch

SpecDaemonLive == DaemonInit /\ [][DaemonNext]_vars /\ WF_vars(HandlerStep)

\* --------------------------------------------------------------- scheduler
\* auto.rs:16, seconds.
AUTO_ADJUST_INTERVAL == 600

\* auto.rs:57, Duration::from_secs(12 * 60 * 60).
REVERT_TO_AUTO_AFTER == 43200

\* The scheduler's clock stops counting here, past the revert threshold.
MaxElapsed == 45000

\* Mode signals the channel holds at most in this model.
MaxQueue == 2

\* compute_brightness_percentage: night and day values of the curve.
SchedPercents == {1, 100}

\* The revert check with half the threshold.
must_revert_early(since) == since > REVERT_TO_AUTO_AFTER \div 2

\* The revert check with a threshold the clock of a day never passes.
must_revert_late(since) == since > 2 * MaxElapsed

\* auto.rs:57: Instant::now() - last_time_mode_was_changed > 12 hours.
must_revert(since) == since > REVERT_TO_AUTO_AFTER

\* The sender's half of the channel: a session's handler sends the mode.
send_mode ==
    /\ sched_pc # "panicked"
    /\ Len(mode_chan) < MaxQueue
    /\ \E m \in Modes : mode_chan' = Append(mode_chan, m)
    /\ UNCHANGED <<ctlvars, dvars, svars, lvars, pvars, xvars>>

\* A scheduler that adjusts whatever its mode.
applies_in_any(mode) == mode \in {Auto, Manual}

\* auto.rs:27: matches!(current_mode, BacklightMode::Auto)
applies_in(mode) == mode = Auto

\* The quadruple get_brightness_based_on_location passes to the curve.
LocationQuadruple(sun) ==
    <<sun[1], plus(sun[1], BRIGHTNESS_TRANSITION_DURATION),
      sun[2], plus(sun[2], BRIGHTNESS_TRANSITION_DURATION)>>

\* The assertions of compute_brightness_percentage fail on the quadruple of
\* some day's sun: the thread that called it panics.
CurveAsserts == \E sun \in SunTimes : \E now \in Hours :
    Evaluation(now, LocationQuadruple(sun)).result.status = "panic"

\* auto.rs:27-39: in Auto, set the brightness the location or the clock gives;
\* a failure is logged only. find_location may itself fail: nothing is set.
\* The curve is evaluated before set_brightness_percent is entered.
sched_adjust ==
    /\ sched_pc = "adjust"
    /\ IF applies_in(current_mode)
       THEN \/ /\ UNCHANGED ctlvars
               /\ sched_pc' = "recv"
            \/ /\ CurveAsserts
               /\ UNCHANGED ctlvars
               /\ sched_pc' = "panicked"
            \/ /\ \E p \in SchedPercents : BrightnessCall("set", p, FALSE)
               /\ sched_pc' = IF call'.result = "panic" THEN "panicked" ELSE "recv"
       ELSE /\ UNCHANGED ctlvars
            /\ sched_pc' = "recv"
    /\ UNCHANGED <<current_mode, since_mode_changed, last_signal>>
    /\ UNCHANGED <<dvars, mode_chan, lvars, pvars, xvars>>

\* auto.rs:41-48: recv_timeout returns a signal: the mode is taken, the instant reset.
sched_recv ==
    /\ sched_pc = "recv"
    /\ mode_chan # <<>>
    /\ current_mode' = Head(mode_chan)
    /\ last_signal' = <<Head(mode_chan)>>
    /\ mode_chan' = Tail(mode_chan)
    /\ since_mode_changed' = 0
    /\ sched_pc' = "check"
    /\ UNCHANGED <<ctlvars, dvars, lvars, pvars, xvars>>

\* auto.rs:49-50: recv_timeout times out after AUTO_ADJUST_INTERVAL.
sched_timeout ==
    /\ sched_pc = "recv"
    /\ mode_chan = <<>>
    /\ since_mode_changed' = Min(since_mode_changed + AUTO_ADJUST_INTERVAL, MaxElapsed)
    /\ sched_pc' = "check"
    /\ UNCHANGED <<current_mode, last_signal, mode_chan>>
    /\ UNCHANGED <<ctlvars, dvars, lvars, pvars, xvars>>

\* auto.rs:55-59: back to Auto when the mode has not changed for 12 hours.
sched_check ==
    /\ sched_pc = "check"
    /\ current_mode' = IF must_revert(since_mode_changed) THEN Auto ELSE current_mode
    /\ sched_pc' = "adjust"
    /\ UNCHANGED <<since_mode_changed, last_signal, mode_chan>>
    /\ UNCHANGED <<ctlvars, dvars, lvars, pvars, xvars>>

SchedStep == sched_adjust \/ sched_recv \/ sched_timeout \/ sched_check

\* The daemon after its first refresh, the scheduler thread just spawned. The
\* registry mutex may already be poisoned by another thread's panic. The
\* scheduler's set_brightness_percent does no u8 arithmetic: the build profile
\* makes no difference to it, and a release build is taken.
SchedInit ==
    /\ hw = [d \in Devices |-> RawOfPercent(50, MaxRawOf(d))]
    /\ overflow_checks = FALSE
    /\ MONITORS = new_monitors(Devices, hw)
    /\ LAST_REFRESH = SomeInstant
    /\ poisoned \in BOOLEAN
    /\ call = NoCall
    /\ DaemonStart
    /\ SchedStart
    /\ LockStart
    /\ PairStart
    /\ HelperStart

SchedNext ==
    \/ send_mode
    \/ sched_adjust
    \/ sched_recv
    \/ sched_timeout
    \/ sched_check

\* recv_timeout is a bounded wait: the loop of auto_adjust keeps turning.
SpecSched == SchedInit /\ [][SchedNext]_vars /\ WF_vars(SchedStep)

\* ------------------------------------------- the registry mutex, step by step
\* monitors.rs:90: set_brightness_percent is entered with its percent.
lk_set_start ==
    /\ pc["scheduler"] = "idle"
    /\ \E p \in SchedPercents : call' = [NoCall EXCEPT !.op = "set", !.arg = p]
    /\ pc' = [pc EXCEPT !["scheduler"] = "lock"]
    /\ last_error' = [last_error EXCEPT !["scheduler"] = FALSE]
    /\ UNCHANGED <<MONITORS, LAST_REFRESH, poisoned, hw, overflow_checks>>
    /\ UNCHANGED <<lock_owner, idx, new_list, dvars, mode_chan, svars, pvars, xvars>>
    /\ UNCHANGED last_refresh_owner

\* monitors.rs:93: MONITORS.lock().unwrap() in the head of the for loop. The
\* guard is a temporary of the iterator expression: it lives until the loop ends.
lk_set_lock ==
    /\ pc["scheduler"] = "lock"
    /\ lock_owner = None
    /\ IF poisoned
       THEN /\ pc' = [pc EXCEPT !["scheduler"] = "panicked"]
            /\ UNCHANGED <<lock_owner, idx>>
       ELSE /\ lock_owner' = "scheduler"
            /\ idx' = [idx EXCEPT !["scheduler"] = 1]
            /\ pc' = [pc EXCEPT !["scheduler"] =
                         IF Len(MONITORS) = 0 THEN "unlock" ELSE "write"]
    /\ UNCHANGED <<ctlvars, last_error, new_list, dvars, mode_chan, svars, pvars, xvars>>
    /\ UNCHANGED last_refresh_owner

\* monitors.rs:94-99: monitor.set_brightness(percent) returns; an error is kept.
\* While pc is "write" the device write is pending; a hung write never returns.
lk_set_write ==
    /\ pc["scheduler"] = "write"
    /\ \E ok \in BOOLEAN :
         LET i == idx["scheduler"]
             r == set_brightness(MONITORS[i], call.arg, ok)
         IN /\ MONITORS' = [MONITORS EXCEPT ![i] = r.m]
            /\ hw' = IF r.st = "ok" THEN [hw EXCEPT ![r.m.dev] = r.m.raw] ELSE hw
            /\ last_error' = [last_error EXCEPT !["scheduler"] = @ \/ r.st = "err"]
            /\ idx' = [idx EXCEPT !["scheduler"] = i + 1]
            /\ pc' = [pc EXCEPT !["scheduler"] =
                         IF i = Len(MONITORS) THEN "unlock" ELSE "write"]
    /\ UNCHANGED <<LAST_REFRESH, poisoned, overflow_checks, call>>
    /\ UNCHANGED <<lock_owner, new_list, dvars, mode_chan, svars, pvars, xvars>>
    /\ UNCHANGED last_refresh_owner

\* monitors.rs:100-109: the loop ends and drops the guard; on an error the
\* registry is refreshed and the error returned.
lk_set_unlock ==
    /\ pc["scheduler"] = "unlock"
    /\ lock_owner' = None
    /\ pc' = [pc EXCEPT !["scheduler"] =
                 IF last_error["scheduler"] THEN "enumerate" ELSE "idle"]
    /\ call' = [call EXCEPT !.result = IF last_error["scheduler"] THEN "err" ELSE "ok"]
    /\ UNCHANGED <<MONITORS, LAST_REFRESH, poisoned, hw, overflow_checks>>
    /\ UNCHANGED <<idx, last_error, new_list, dvars, mode_chan, svars, pvars, xvars>>
    /\ UNCHANGED last_refresh_owner

\* monitors.rs:42-43: auto_refresh_monitors_list enters refresh_monitors_list.
lk_refresh_start ==
    /\ pc["refresher"] = "idle"
    /\ pc' = [pc EXCEPT !["refresher"] = "enumerate"]
    /\ UNCHANGED <<ctlvars, lock_owner, idx, last_error, new_list>>
    /\ UNCHANGED <<dvars, mode_chan, svars, pvars, xvars>>
    /\ UNCHANGED last_refresh_owner

\* What an enumeration finds here: the devices up to some number, the rest
\* unplugged or failing their construction.
Discoveries == {1..k : k \in 0..NumDevices}

\* monitors.rs:52-79: new_monitors is built without the lock.
lk_enumerate(t) ==
    /\ pc[t] = "enumerate"
    /\ \E found \in Discoveries :
         new_list' = [new_list EXCEPT ![t] = new_monitors(found, hw)]
    /\ pc' = [pc EXCEPT ![t] = "swap"]
    /\ UNCHANGED <<ctlvars, lock_owner, idx, last_error, dvars, mode_chan, svars, pvars, xvars>>
    /\ UNCHANGED last_refresh_owner

\* refresh_monitors_list letting go of the registry between clear and extend.
lk_swap_unlocked(t) ==
    /\ pc[t] = "swap"
    /\ lock_owner = None
    /\ IF poisoned
       THEN /\ pc' = [pc EXCEPT ![t] = "panicked"]
            /\ UNCHANGED MONITORS
       ELSE /\ MONITORS' = <<>>
            /\ pc' = [pc EXCEPT ![t] = "extend"]
    /\ UNCHANGED <<LAST_REFRESH, poisoned, hw, overflow_checks, call>>
    /\ UNCHANGED <<lock_owner, idx, last_error, new_list, dvars, mode_chan, svars, pvars, xvars>>
    /\ UNCHANGED last_refresh_owner

\* monitors.rs:81-82: MONITORS.lock().expect(..), then monitors.clear(). The
\* guard `monitors` lives to the end of the function.
lk_swap(t) ==
    /\ pc[t] = "swap"
    /\ lock_owner = None
    /\ IF poisoned
       THEN /\ pc' = [pc EXCEPT ![t] = "panicked"]
            /\ UNCHANGED <<MONITORS, lock_owner>>
       ELSE /\ lock_owner' = t
            /\ MONITORS' = <<>>
            /\ pc' = [pc EXCEPT ![t] = "extend"]
    /\ UNCHANGED <<LAST_REFRESH, poisoned, hw, overflow_checks, call>>
    /\ UNCHANGED <<idx, last_error, new_list, dvars, mode_chan, svars, pvars, xvars>>
    /\ UNCHANGED last_refresh_owner

\* monitors.rs:83: monitors.extend(new_monitors).
lk_extend(t) ==
    /\ pc[t] = "extend"
    /\ MONITORS' = new_list[t]
    /\ pc' = [pc EXCEPT ![t] = "stamp"]
    /\ UNCHANGED <<LAST_REFRESH, poisoned, hw, overflow_checks, call>>
    /\ UNCHANGED <<lock_owner, idx, last_error, new_list, dvars, mode_chan, svars, pvars, xvars>>
    /\ UNCHANGED last_refresh_owner

\* Where a thread goes on when its refresh_monitors_list returns: turn_off
\* (monitors.rs:181-184), run by the session thread, goes on to its second
\* loop; set_brightness_percent returns its error (monitors.rs:104-105) and
\* auto_refresh_monitors_list sleeps (monitors.rs:43-46).
AfterRefresh(t) == IF t = "session" THEN "retry_lock" ELSE "idle"

\* monitors.rs:85-88: LAST_REFRESH is locked for the one statement that
\* records the instant, then the function ends and drops the registry guard.
lk_stamp(t) ==
    /\ pc[t] = "stamp"
    /\ last_refresh_owner = None
    /\ LAST_REFRESH' = SomeInstant
    /\ lock_owner' = IF lock_owner = t THEN None ELSE lock_owner
    /\ new_list' = [new_list EXCEPT ![t] = <<>>]
    /\ pc' = [pc EXCEPT ![t] = AfterRefresh(t)]
    /\ UNCHANGED <<MONITORS, poisoned, hw, overflow_checks, call>>
    /\ UNCHANGED <<idx, last_error, dvars, mode_chan, svars, pvars, xvars>>
    /\ UNCHANGED last_refresh_owner

\* monitors.rs:233-242: get_average_brightness, under the lock from its first
\* line to its last; sum / monitors.len() panics on an empty registry.
get_average_brightness ==
    /\ pc["session"] = "idle"
    /\ lock_owner = None
    /\ IF poisoned \/ Len(MONITORS) = 0
       THEN /\ pc' = [pc EXCEPT !["session"] = "panicked"]
            /\ poisoned' = TRUE
       ELSE UNCHANGED <<pc, poisoned>>
    /\ UNCHANGED <<MONITORS, LAST_REFRESH, hw, overflow_checks, call>>
    /\ UNCHANGED <<lock_owner, idx, last_error, new_list, dvars, mode_chan, svars, pvars, xvars>>
    /\ UNCHANGED last_refresh_owner

\* The daemon at its start, the statics as declared (monitors.rs:15, 18);
\* every thread between two operations.
LockInit ==
    /\ hw = [d \in Devices |-> RawOfPercent(50, MaxRawOf(d))]
    /\ overflow_checks \in BOOLEAN
    /\ MONITORS = <<>>
    /\ LAST_REFRESH = None
    /\ poisoned = FALSE
    /\ call = NoCall
    /\ DaemonStart
    /\ SchedStart
    /\ LockStart
    /\ PairStart
    /\ HelperStart

LockNext ==
    \/ lk_set_start
    \/ lk_set_lock
    \/ lk_set_write
    \/ lk_set_unlock
    \/ lk_refresh_start
    \/ \E t \in {"scheduler", "refresher"} : lk_enumerate(t)
    \/ \E t \in {"scheduler", "refresher"} : lk_swap(t)
    \/ \E t \in {"scheduler", "refresher"} : lk_extend(t)
    \/ \E t \in {"scheduler", "refresher"} : lk_stamp(t)
    \/ get_average_brightness

SpecLock == LockInit /\ [][LockNext]_vars

\* ------------------------------------- the registry and LAST_REFRESH mutexes
\* monitors.rs:21, in seconds.
MONITORS_REFRESH_INTERVAL == 60

\* Seconds since the last refresh at which the refresh loop makes its check.
Elapsed == {MONITORS_REFRESH_INTERVAL, MONITORS_REFRESH_INTERVAL + 1}

\* monitors.rs:38-39: no refresh was made yet, or the last is over a minute old.
must_refresh(last, elapsed) ==
    last = None \/ elapsed > MONITORS_REFRESH_INTERVAL

\* What the lock-level actions below leave alone.
LocksFrame ==
    /\ UNCHANGED <<LAST_REFRESH, hw, overflow_checks, call>>
    /\ UNCHANGED <<new_list, dvars, mode_chan, svars, pvars, xvars>>

\* monitors.rs:34-36: the refresh loop wakes and locks LAST_REFRESH; the guard
\* `last_refresh` lives to the end of the block.
lk_check_lock ==
    /\ pc["refresher"] = "idle"
    /\ last_refresh_owner = None
    /\ last_refresh_owner' = "refresher"
    /\ pc' = [pc EXCEPT !["refresher"] = "check"]
    /\ UNCHANGED <<MONITORS, poisoned, lock_owner, idx, last_error>>
    /\ LocksFrame

\* monitors.rs:38-46: must_refresh is computed, the block ends and drops the
\* guard; then refresh_monitors_list is entered, or the loop sleeps.
lk_check ==
    /\ pc["refresher"] = "check"
    /\ last_refresh_owner' = None
    /\ \E elapsed \in Elapsed :
         pc' = [pc EXCEPT !["refresher"] =
                   IF must_refresh(LAST_REFRESH, elapsed) THEN "enumerate" ELSE "idle"]
    /\ UNCHANGED <<MONITORS, poisoned, lock_owner, idx, last_error>>
    /\ LocksFrame

\* monitors.rs:169-170: a client's TurnOff enters turn_off.
lk_off_start ==
    /\ pc["session"] = "idle"
    /\ pc' = [pc EXCEPT !["session"] = "off_lock"]
    /\ last_error' = [last_error EXCEPT !["session"] = FALSE]
    /\ UNCHANGED <<MONITORS, poisoned, lock_owner, last_refresh_owner, idx>>
    /\ LocksFrame

\* The places of turn_off in its first loop and in its second.
OffPc(pass) ==
    IF pass = 1
    THEN [lock |-> "off_lock", power |-> "off_power", unlock |-> "off_unlock"]
    ELSE [lock |-> "retry_lock", power |-> "retry_power", unlock |-> "retry_unlock"]

\* monitors.rs:172 and 183-184: MONITORS.lock().unwrap() in the head of the
\* loop, the guard a temporary that lives until the loop ends.
lk_off_lock(pass) ==
    /\ pc["session"] = OffPc(pass).lock
    /\ lock_owner = None
    /\ IF poisoned
       THEN /\ pc' = [pc EXCEPT !["session"] = "panicked"]
            /\ UNCHANGED <<lock_owner, idx, last_error>>
       ELSE /\ lock_owner' = "session"
            /\ idx' = [idx EXCEPT !["session"] = 1]
            /\ last_error' = [last_error EXCEPT !["session"] = FALSE]
            /\ pc' = [pc EXCEPT !["session"] =
                         IF Len(MONITORS) = 0 THEN OffPc(pass).unlock
                         ELSE OffPc(pass).power]
    /\ UNCHANGED <<MONITORS, poisoned, last_refresh_owner>>
    /\ LocksFrame

\* monitors.rs:173-176 and 185-188: monitor.turn_off() returns and an error is
\* kept, or it panics (todo!() of the ACPI backend): the unwinding drops the
\* guard and poisons the mutex.
lk_off_power(pass) ==
    /\ pc["session"] = OffPc(pass).power
    /\ \E ok \in BOOLEAN :
         LET i == idx["session"]
             st == set_power(MONITORS[i], ok)
         IN IF st = "panic"
            THEN /\ pc' = [pc EXCEPT !["session"] = "panicked"]
                 /\ poisoned' = TRUE
                 /\ lock_owner' = None
                 /\ UNCHANGED <<idx, last_error>>
            ELSE /\ last_error' = [last_error EXCEPT !["session"] = @ \/ st = "err"]
                 /\ idx' = [idx EXCEPT !["session"] = i + 1]
                 /\ pc' = [pc EXCEPT !["session"] =
                              IF i = Len(MONITORS) THEN OffPc(pass).unlock
                              ELSE OffPc(pass).power]
                 /\ UNCHANGED <<poisoned, lock_owner>>
    /\ UNCHANGED <<MONITORS, last_refresh_owner>>
    /\ LocksFrame

\* A turn_off whose first loop keeps its guard while it refreshes.
lk_off_keep(pass) ==
    /\ pc["session"] = OffPc(pass).unlock
    /\ pc' = [pc EXCEPT !["session"] =
                 IF pass = 1 /\ last_error["session"] THEN "enumerate" ELSE "idle"]
    /\ lock_owner' = IF pass = 1 /\ last_error["session"] THEN lock_owner ELSE None
    /\ UNCHANGED <<MONITORS, poisoned, last_refresh_owner, idx, last_error>>
    /\ LocksFrame

\* monitors.rs:177-181 and 189-198: the loop ends and drops the guard. After
\* the first loop an error leads into refresh_monitors_list; otherwise, and
\* after the second loop, turn_off returns.
lk_off_unlock(pass) ==
    /\ pc["session"] = OffPc(pass).unlock
    /\ lock_owner' = None
    /\ pc' = [pc EXCEPT !["session"] =
                 IF pass = 1 /\ last_error["session"] THEN "enumerate" ELSE "idle"]
    /\ UNCHANGED <<MONITORS, poisoned, last_refresh_owner, idx, last_error>>
    /\ LocksFrame

\* The three loops side by side: the scheduler's set_brightness_percent, the
\* refresh loop with its check of LAST_REFRESH, and a client's turn_off. The
\* scheduler applies the day's percent: which value it writes plays no part
\* in the locking.
LocksNext ==
    \/ (lk_set_start /\ call'.arg = 100)
    \/ lk_set_lock
    \/ lk_set_write
    \/ lk_set_unlock
    \/ lk_check_lock
    \/ lk_check
    \/ lk_off_start
    \/ \E pass \in {1, 2} : lk_off_lock(pass)
    \/ \E pass \in {1, 2} : lk_off_power(pass)
    \/ \E pass \in {1, 2} : lk_off_unlock(pass)
    \/ \E t \in Threads : lk_enumerate(t)
    \/ \E t \in Threads : lk_swap(t)
    \/ \E t \in Threads : lk_extend(t)
    \/ \E t \in Threads : lk_stamp(t)

\* The daemon at its start as in LockInit, the build the release one.
LocksInit == LockInit /\ overflow_checks = FALSE

SpecLocks == LocksInit /\ [][LocksNext]_vars

\* ------------------------------------- brightness commands one after another
\* The brightness commands two connections may send.
BrightnessCmds ==
    {[op |-> "set", arg |-> p] : p \in Percents} \cup
    {[op |-> o, arg |-> d] : o \in {"inc", "dec"}, d \in Deltas}

\* The registry a brightness operation leaves when every device write works.
after(reg, c) ==
    brightness_loop(reg, hw, 1, c.op, c.arg, Healthy(reg), FALSE, <<>>).reg

\* A command of one connection is applied to the registry.
apply_first ==
    /\ applied = <<>>
    /\ \E c \in BrightnessCmds :
         /\ BrightnessCall(c.op, c.arg, FALSE)
         /\ applied' = <<c>>
    /\ UNCHANGED <<start, dvars, mode_chan, svars, lvars, xvars>>

\* A command of another connection is applied after it: the registry's
\* critical section has put the two in this order.
apply_second ==
    /\ Len(applied) = 1
    /\ \E c \in BrightnessCmds :
         /\ BrightnessCall(c.op, c.arg, FALSE)
         /\ applied' = Append(applied, c)
    /\ UNCHANGED <<start, dvars, mode_chan, svars, lvars, xvars>>

\* A registry as earlier refreshes and writes left it, nothing applied yet.
PairInit ==
    /\ \E ps \in [Devices -> {-1} \cup InitPercents] :
         /\ MONITORS = RegistryOf(ps)
         /\ hw = HwOf(ps)
    /\ LAST_REFRESH = SomeInstant
    /\ poisoned = FALSE
    /\ overflow_checks \in BOOLEAN
    /\ call = NoCall
    /\ start = MONITORS
    /\ applied = <<>>
    /\ DaemonStart
    /\ SchedStart
    /\ LockStart
    /\ HelperStart

PairNext == apply_first \/ apply_second

SpecPair == PairInit /\ [][PairNext]_vars

\* -------------------------------------------------- the sun curve, evaluated
\* Boundary quadruples handed to the curve: the fallback's, the ones of
\* test_exact_transition_points, ramps shorter than a second, boundaries with
\* a fraction of a second, and one whose down ramp wrapped past midnight.
Quadruples ==
    { <<hms(6, 0, 0), hms(10, 0, 0), hms(18, 0, 0), hms(22, 0, 0)>>,
      <<hms(6, 7, 8), hms(7, 8, 9), hms(19, 18, 17), hms(20, 19, 18)>>,
      <<hms(6, 0, 0), hms(6, 0, 0) + 500, hms(18, 0, 0), hms(22, 0, 0)>>,
      <<hms(6, 0, 0), hms(10, 0, 0), hms(18, 0, 0), hms(18, 0, 0) + 500>>,
      <<hms(6, 0, 0) + 500, hms(10, 0, 0), hms(18, 0, 0), hms(22, 0, 0) + 500>>,
      <<hms(6, 0, 0), hms(10, 0, 0), hms(21, 0, 0), hms(1, 0, 0)>> }

\* Times of day at, just before and just after the boundaries of q.
Around(q) ==
    {t \in {q[i] + d : i \in 1..4, d \in {-500, 0, 500, 1000}} :
        t >= 0 /\ t < hms(24, 0, 0)}

\* compute_brightness_percentage is called with any arguments.
curve_compute ==
    /\ \E q \in Quadruples : \E now \in Hours \cup Around(q) :
         curve' = Evaluation(now, q)
    /\ UNCHANGED <<ctlvars, dvars, mode_chan, svars, lvars, pvars, hvars>>
    /\ UNCHANGED locvars

\* get_brightness_based_on_time at some time of the day.
get_brightness_based_on_time ==
    /\ \E now \in Hours \cup {hms(h, 30, 0) + 500 : h \in 0..23} :
         curve' = Evaluation(now,
                    <<FALLBACK_BRIGHTNESS_UP_BEGIN,
                      plus(FALLBACK_BRIGHTNESS_UP_BEGIN, BRIGHTNESS_TRANSITION_DURATION),
                      FALLBACK_BRIGHTNESS_DOWN_BEGIN,
                      plus(FALLBACK_BRIGHTNESS_DOWN_BEGIN, BRIGHTNESS_TRANSITION_DURATION)>>)
    /\ UNCHANGED <<ctlvars, dvars, mode_chan, svars, lvars, pvars, hvars>>
    /\ UNCHANGED locvars

\* get_brightness_based_on_location at some time of a day with some sun.
get_brightness_based_on_location ==
    /\ \E sun \in SunTimes : \E now \in Hours :
         curve' = Evaluation(now,
                    <<sun[1], plus(sun[1], BRIGHTNESS_TRANSITION_DURATION),
                      sun[2], plus(sun[2], BRIGHTNESS_TRANSITION_DURATION)>>)
    /\ UNCHANGED <<ctlvars, dvars, mode_chan, svars, lvars, pvars, hvars>>
    /\ UNCHANGED locvars

CurveInit ==
    /\ MONITORS = <<>>
    /\ hw = [d \in Devices |-> RawOfPercent(50, MaxRawOf(d))]
    /\ LAST_REFRESH = None
    /\ poisoned = FALSE
    /\ overflow_checks \in BOOLEAN
    /\ call = NoCall
    /\ DaemonStart
    /\ SchedStart
    /\ LockStart
    /\ PairStart
    /\ HelperStart

CurveNext ==
    \/ curve_compute
    \/ get_brightness_based_on_time
    \/ get_brightness_based_on_location

SpecCurve == CurveInit /\ [][CurveNext]_vars

\* ------------------------------------------ the location cache, call by call
MaxClock == 220000

\* Places the remote service may answer with, as (lat, lon).
Places == {<<48, 2>>, <<35, 139>>}

\* What the remote service does with the request: the call or the decoding
\* fails, the answer's status is not "success", or it names a place.
Responses ==
    {[kind |-> k, lat |-> 0, lon |-> 0] : k \in {"neterr", "fail"}} \cup
    {[kind |-> "success", lat |-> p[1], lon |-> p[2]] : p \in Places}

\* The body of find_ip_location.  The cache it decides on is the in-memory
\* one after the cache file was loaded into it; what it loaded stays in
\* memory whatever follows.
ip_location(resp, can_mkdir, can_write) ==
    LET cache == load_cache(LAST_LOCATION_REFRESH, cache_file)
        now == clock
        found == [latitude |-> resp.lat, longitude |-> resp.lon,
                  timestamp |-> now]
        this == [status |-> "ok", remote |-> FALSE, cache |-> cache,
                 now |-> now, ret |-> <<cache.latitude, cache.longitude>>]
    IN  IF ~must_lookup(now, cache)
        THEN /\ LAST_LOCATION_REFRESH' = cache
             /\ lookup' = this
             /\ UNCHANGED cache_file
        ELSE IF resp.kind # "success"
        THEN /\ LAST_LOCATION_REFRESH' = cache
             /\ lookup' = [this EXCEPT !.status = "err", !.remote = TRUE,
                                       !.ret = <<>>]
             /\ UNCHANGED cache_file
        ELSE /\ LAST_LOCATION_REFRESH' = found
             /\ IF ~can_mkdir
                THEN /\ lookup' = [this EXCEPT !.status = "err",
                                               !.remote = TRUE, !.ret = <<>>]
                     /\ UNCHANGED cache_file
                ELSE /\ lookup' = [this EXCEPT !.remote = TRUE,
                                      !.ret = <<resp.lat, resp.lon>>]
                     /\ cache_file' = IF can_write THEN to_toml(found)
                                      ELSE cache_file

\* One call of find_ip_location.
find_ip_location ==
    /\ \E resp \in Responses, can_mkdir \in BOOLEAN, can_write \in BOOLEAN :
         ip_location(resp, can_mkdir, can_write)
    /\ UNCHANGED <<ctlvars, dvars, mode_chan, svars, lvars, pvars, hvars>>
    /\ UNCHANGED <<curve, clock, env, resolved>>

\* Time passes between two calls: the refresh interval, or a second more.
clock_advance ==
    /\ \E d \in {IP_BASED_LOCATION_REFRESH_INTERVAL,
                 IP_BASED_LOCATION_REFRESH_INTERVAL + 1} :
         /\ clock + d <= MaxClock
         /\ clock' = clock + d
    /\ UNCHANGED <<ctlvars, dvars, mode_chan, svars, lvars, pvars, hvars>>
    /\ UNCHANGED <<curve, LAST_LOCATION_REFRESH, cache_file, lookup, env, resolved>>

\* The daemon is started again: the static is LastKnownLocation::default()
\* again, the file is what the last run left.
restart ==
    /\ lookup.status # "idle" \/ resolved.status # "idle"
    /\ LAST_LOCATION_REFRESH' = DefaultLocation
    /\ lookup' = NoLookup
    /\ resolved' = NoResolved
    /\ UNCHANGED <<ctlvars, dvars, mode_chan, svars, lvars, pvars, hvars>>
    /\ UNCHANGED <<curve, cache_file, clock, env>>

\* The daemon starts at some time with whatever cache file an earlier run, or
\* somebody else, left: none, an unreadable one, one that does not parse, or
\* one written 10 minutes ago, exactly 12 hours ago, a second more than 12
\* hours ago, 10 minutes in the future, or with a timestamp of 0.
LocationInit ==
    /\ MONITORS = <<>>
    /\ hw = [d \in Devices |-> RawOfPercent(50, MaxRawOf(d))]
    /\ LAST_REFRESH = None
    /\ poisoned = FALSE
    /\ overflow_checks \in BOOLEAN
    /\ call = NoCall
    /\ DaemonStart
    /\ SchedStart
    /\ LockStart
    /\ PairStart
    /\ curve = NoCurve
    /\ LAST_LOCATION_REFRESH = DefaultLocation
    /\ lookup = NoLookup
    /\ env = NoEnv
    /\ resolved = NoResolved
    /\ device = NoDevice
    /\ dev_call = NoDevCall
    /\ clock = 2 * IP_BASED_LOCATION_REFRESH_INTERVAL
    /\ cache_file \in
         {FileOf(k, DefaultLocation) : k \in {"missing", "unreadable", "invalid"}}
         \cup
         {to_toml([latitude |-> 51, longitude |-> 0, timestamp |-> t]) :
            t \in {0, clock - AUTO_ADJUST_INTERVAL,
                   clock - IP_BASED_LOCATION_REFRESH_INTERVAL,
                   clock - IP_BASED_LOCATION_REFRESH_INTERVAL - 1,
                   clock + AUTO_ADJUST_INTERVAL}}

LocationNext == find_ip_location \/ clock_advance \/ restart

SpecLocation == LocationInit /\ [][LocationNext]_vars

\* ------------------------------------------------ the resolver, call by call
\* Values of BACKLIGHTD_LOCATION: unset, not Unicode, well formed (also with
\* spaces around the numbers), and malformed in each way the parsing tells
\* apart (no comma, a second comma, a part that is no number, an empty part).
LocationValues ==
    { EnvOf("unset", <<>>), EnvOf("notunicode", <<>>),
      EnvOf("set", <<"4", "8", ",", "2">>),
      EnvOf("set", <<" ", "4", "8", " ", ",", " ", "2", " ">>),
      EnvOf("set", <<"4", "8">>),
      EnvOf("set", <<"4", "8", ",", "2", ",", "2">>),
      EnvOf("set", <<"4", "8", ",", "x">>),
      EnvOf("set", <<"4", " ", "8", ",", "2">>),
      EnvOf("set", <<",">>),
      EnvOf("set", <<>>) }

\* Values of BACKLIGHTD_ENABLE_LOCATION_API.
EnableValues ==
    { EnvOf("unset", ""), EnvOf("notunicode", "") } \cup
    { EnvOf("set", t) : t \in {"1", "y", "yes", "0", "no", "Y", "true", ""} }

\* Option<(f64, f64)> as a sequence: None is <<>>.
Resolved(status, ret, ip_called, remote, fetched) ==
    [status |-> status, ret |-> ret, ip_called |-> ip_called,
     remote |-> remote, fetched |-> fetched]

\* One call of find_location.
find_location ==
    /\ \E resp \in Responses, can_mkdir \in BOOLEAN, can_write \in BOOLEAN :
         LET cfg == find_location_from_config(env.location)
             allow == allow_api_call(env.enable)
         IN  IF cfg.status = "ok"
             THEN /\ resolved' = Resolved("ok", cfg.ret, FALSE, FALSE, FALSE)
                  /\ UNCHANGED <<LAST_LOCATION_REFRESH, cache_file, lookup>>
             ELSE IF cfg.status = "err" \/ allow = "err"
             THEN /\ resolved' = Resolved("err", <<>>, FALSE, FALSE, FALSE)
                  /\ UNCHANGED <<LAST_LOCATION_REFRESH, cache_file, lookup>>
             ELSE IF allow = "no"
             THEN /\ resolved' = Resolved("ok", <<>>, FALSE, FALSE, FALSE)
                  /\ UNCHANGED <<LAST_LOCATION_REFRESH, cache_file, lookup>>
             ELSE /\ ip_location(resp, can_mkdir, can_write)
                  /\ resolved' =
                       Resolved("ok",
                                IF lookup'.status = "ok" THEN lookup'.ret ELSE <<>>,
                                TRUE, lookup'.remote,
                                lookup'.remote /\ resp.kind = "success")
    /\ UNCHANGED <<ctlvars, dvars, mode_chan, svars, lvars, pvars, hvars>>
    /\ UNCHANGED <<curve, clock, env>>

\* The daemon starts in some environment, at some time, with some cache file.
ResolveInit ==
    /\ MONITORS = <<>>
    /\ hw = [d \in Devices |-> RawOfPercent(50, MaxRawOf(d))]
    /\ LAST_REFRESH = None
    /\ poisoned = FALSE
    /\ overflow_checks \in BOOLEAN
    /\ call = NoCall
    /\ DaemonStart
    /\ SchedStart
    /\ LockStart
    /\ PairStart
    /\ curve = NoCurve
    /\ LAST_LOCATION_REFRESH = DefaultLocation
    /\ lookup = NoLookup
    /\ resolved = NoResolved
    /\ device = NoDevice
    /\ dev_call = NoDevCall
    /\ env \in [location : LocationValues, enable : EnableValues]
    /\ clock = 2 * IP_BASED_LOCATION_REFRESH_INTERVAL
    /\ cache_file \in
         {NoFile} \cup
         {to_toml([latitude |-> 51, longitude |-> 0, timestamp |-> t]) :
            t \in {clock - AUTO_ADJUST_INTERVAL,
                   clock - IP_BASED_LOCATION_REFRESH_INTERVAL - 1}}

ResolveNext == find_location \/ clock_advance \/ restart

SpecResolve == ResolveInit /\ [][ResolveNext]_vars

\* ------------------------------------------------- one device, call by call
\* The u16 maxima a device may report for itself. For these RawOfPercent is
\* the f64 computation of the code at every percent up to 100.
MaxRaws == {0, 1, 7, 100, 255, 1000, 65535}

\* The u16 raw values a device may report as current.
Raws == {0, 1, 50, 100, 127, 255, 655, 656, 1000, 65535}

\* The u8 percents handed to set_brightness.
DevicePercents ==
    (0..10) \cup {29, 49, 50, 51, 57, 58, 90, 99, 100} \cup {101, 255}

\* BacklightAcpiDevice::new / BacklightDdcDevice::new on a device that reads.
device_new ==
    /\ \E raw \in Raws, max \in MaxRaws :
         IF NewPercent(raw, max) < 0
         THEN /\ dev_call' = DevCall("new", "panic", <<>>)
              /\ UNCHANGED device
         ELSE /\ dev_call' = DevCall("new", "ok", <<>>)
              /\ device' = [present |-> TRUE, max |-> max, raw |-> raw,
                            pct |-> NewPercent(raw, max)]
    /\ UNCHANGED <<ctlvars, dvars, mode_chan, svars, lvars, pvars>>
    /\ UNCHANGED <<curve, locvars>>

\* BacklightDevice::set_brightness on the monitor, the write working or not.
device_set_brightness ==
    /\ device.present
    /\ \E percent \in DevicePercents, ok \in BOOLEAN :
         LET r == set_brightness(device, percent, ok)
         IN  /\ device' = r.m
             /\ dev_call' = DevCall("set", r.st,
                                    IF r.st = "ok" THEN <<r.m.raw>> ELSE <<>>)
    /\ UNCHANGED <<ctlvars, dvars, mode_chan, svars, lvars, pvars>>
    /\ UNCHANGED <<curve, locvars>>

DeviceInit ==
    /\ MONITORS = <<>>
    /\ hw = [d \in Devices |-> RawOfPercent(50, MaxRawOf(d))]
    /\ LAST_REFRESH = None
    /\ poisoned = FALSE
    /\ overflow_checks \in BOOLEAN
    /\ call = NoCall
    /\ DaemonStart
    /\ SchedStart
    /\ LockStart
    /\ PairStart
    /\ HelperStart

DeviceNext == device_new \/ device_set_brightness

SpecDevice == DeviceInit /\ [][DeviceNext]_vars

\* ------------------------------------- the scheduler beside a manual command
\* The percent a user sets by hand, none the curve's night or day value.
ManualPercents == Percents \ (SchedPercents \cup {0})

\* A mode signal sent before the manual command is.
earlier_signal ==
    /\ applied = <<>>
    /\ send_mode

\* A session applies SetBrightness(p): the Manual signal goes into the
\* channel, then set_brightness_percent(p) runs from lock to unlock, every
\* device write working.
manual_set_brightness ==
    /\ applied = <<>>
    /\ ~poisoned
    /\ Len(mode_chan) < MaxQueue
    /\ \E p \in ManualPercents :
         LET r == brightness_loop(MONITORS, hw, 1, "set", p, Healthy(MONITORS),
                                  FALSE, <<>>)
         IN  /\ MONITORS' = r.reg
             /\ hw' = r.hw
             /\ applied' = <<[op |-> "set", arg |-> p]>>
    /\ mode_chan' = Append(mode_chan, Manual)
    /\ UNCHANGED <<LAST_REFRESH, poisoned, overflow_checks, call, start>>
    /\ UNCHANGED <<dvars, svars, lvars, xvars>>

\* auto.rs:27-31: the test of the mode and the computation of the brightness,
\* which come before set_brightness_percent is entered and takes the lock.
sched_decide ==
    /\ sched_pc = "adjust"
    /\ IF applies_in(current_mode)
       THEN \E p \in SchedPercents :
              /\ call' = [NoCall EXCEPT !.op = "set", !.arg = p]
              /\ sched_pc' = "apply"
       ELSE /\ UNCHANGED call
            /\ sched_pc' = "recv"
    /\ UNCHANGED <<MONITORS, LAST_REFRESH, poisoned, hw, overflow_checks>>
    /\ UNCHANGED <<current_mode, since_mode_changed, last_signal>>
    /\ UNCHANGED <<dvars, mode_chan, lvars, pvars, xvars>>

\* auto.rs:28-39: set_brightness_percent with the brightness computed, from
\* lock to unlock.
sched_apply ==
    /\ sched_pc = "apply"
    /\ BrightnessCall("set", call.arg, FALSE)
    /\ sched_pc' = IF call'.result = "panic" THEN "panicked" ELSE "recv"
    /\ UNCHANGED <<current_mode, since_mode_changed, last_signal>>
    /\ UNCHANGED <<dvars, mode_chan, lvars, pvars, xvars>>

ManualNext ==
    \/ earlier_signal
    \/ manual_set_brightness
    \/ sched_decide
    \/ sched_apply
    \/ sched_recv
    \/ sched_timeout
    \/ sched_check

SpecManual == SchedInit /\ [][ManualNext]_vars

\* ------------------------------------------------------------------ claims
InRange(c) == c.arg <= 100 /\ \A i \in 1..Len(c.before) : c.before[i] <= 100

IncDecExpected(c, i) ==
    IF c.op = "inc" THEN Min(100, c.before[i] + c.arg) ELSE Max(1, c.before[i] - c.arg)

\* C1: for currents and deltas in 0..100, increase(d) asks every monitor of the
\* registry for min(100, current + d) and decrease(d) for max(1, current - d),
\* each from that monitor's own percent and whatever happens to the others; a
\* call whose writes all work leaves every monitor at that value.
C1_IncDecClamp ==
    (call.op \in {"inc", "dec"} /\ InRange(call) /\ call.log # <<>>) =>
        /\ Len(call.log) = Len(call.before)
        /\ \A i \in 1..Len(call.log) :
              /\ call.log[i].target = IncDecExpected(call, i)
              /\ call.log[i].st \in {"ok", "err"}
        /\ call.result = "ok" =>
              /\ Len(MONITORS) = Len(call.before)
              /\ \A i \in 1..Len(MONITORS) : MONITORS[i].pct = IncDecExpected(call, i)

\* An increase over two monitors, one clamped at 100 and one not.
C1_Witness ==
    /\ call.op = "inc" /\ call.result = "ok" /\ call.arg = 50
    /\ call.before = <<51, 1>>
    /\ Pcts(MONITORS) = <<100, 51>>

SetOps == {"set", "main_set"}

\* C3: set(percent) tries the write on every monitor of the registry even when
\* an earlier one failed; with a failure the registry is refreshed exactly once
\* and the call returns the error, without one it is not refreshed and succeeds.
C3_SetBestEffort ==
    (call.op \in SetOps /\ InRange(call) /\ call.result \in {"ok", "err"}) =>
        /\ Len(call.log) = Len(call.before)
        /\ call.log2 = <<>>
        /\ HasSt(call.log, "err") => (call.refreshes = 1 /\ call.result = "err")
        /\ ~HasSt(call.log, "err") => (call.refreshes = 0 /\ call.result = "ok")

PowerOps == {"turn_off", "turn_on"}

Covers(log, n) == Len(log) = n /\ \A i \in 1..Len(log) : log[i].st \in {"ok", "err"}

\* C4: turn_off() and turn_on() reach every monitor; a failure on the first pass
\* refreshes the registry once and runs the whole batch once more over it, and
\* only a failure of that second pass fails the call; without a failure there is
\* neither a refresh nor a second pass.
C4_PowerRetryOnce ==
    (call.op \in PowerOps /\ call.log # <<>>) =>
        /\ Covers(call.log, Len(call.before))
        /\ HasSt(call.log, "err") =>
              /\ call.refreshes = 1
              /\ Covers(call.log2, Len(MONITORS))
              /\ call.result = (IF HasSt(call.log2, "err") THEN "err" ELSE "ok")
        /\ ~HasSt(call.log, "err") =>
              (call.refreshes = 0 /\ call.log2 = <<>> /\ call.result = "ok")

MainOps == {"main_set", "main_inc", "main_dec"}

\* C2: a SetBrightness, IncreaseBrightness or DecreaseBrightness command with a
\* payload over 100 is rejected at the protocol boundary: no assertion or
\* overflow panic, no monitor written, and the handler and the accept loop stay
\* alive to serve later commands.
C2_OutOfRangeRejected ==
    (call.op \in MainOps /\ call.arg > 100) =>
        /\ call.result # "panic"
        /\ ~HasSt(call.log, "ok")
        /\ handler = "running"
        /\ main_thread = "running"

IsManualCommand(cmd) ==
    cmd.tag \in BrightnessTags \/ (cmd.tag = "SetMode" /\ cmd.arg = Manual)

\* C7: when a SetBrightness, IncreaseBrightness, DecreaseBrightness or
\* SetMode(Manual) command has been dispatched, a Manual signal has been sent to
\* the mode scheduler (it is sent before the operation is applied).
C7_ManualSignalBeforeOperation ==
    IsManualCommand(dispatched.cmd) =>
        \E i \in 1..Len(mode_chan) : mode_chan[i] = Manual

CountTag(cmds, tag) == Cardinality({i \in 1..Len(cmds) : cmds[i].tag = tag})

\* C8: every GetInfo read on a connection is answered by exactly one
\* GetInfoResponse written to that connection, and nothing else is written.
C8_GetInfoAnswered ==
    conn.responses = CountTag(conn.read, "GetInfo")

\* C9: when the daemon ends a session that had no decoding failure, it has read
\* every command the client sent on it, in the order sent.
C9_SessionReadsEveryCommand ==
    (conn.id > 0 /\ ~conn.err) => conn.read = conn.sent

\* C10: a stream whose message cannot be decoded ends that session alone: the
\* accept step that meets it leaves both threads running and the channel, the
\* registry, the devices and the mode signals as they were.
C10_DecodeErrorEndsSessionOnly ==
    [][(Len(conn_log') = Len(conn_log) + 1 /\ conn'.err) =>
          /\ main_thread' = "running"
          /\ UNCHANGED <<handler, handler_pc, cmd_chan, dispatched, mode_chan>>
          /\ UNCHANGED <<ctlvars, svars>>]_vars

\* A connection served after an earlier one failed to decode.
C10_Witness ==
    /\ dispatched.result = "ok"
    /\ \E i \in 1..Len(conn_log) : i < dispatched.conn /\ conn_log[i]
    /\ main_thread = "running" /\ handler = "running"

\* C6: in Manual with no mode signal pending, the scheduler gets to Auto by
\* itself unless a new signal arrives: every wake of its bounded wait compares
\* the time since the last change with 12 hours.
C6_RevertsToAuto ==
    (current_mode = Manual /\ mode_chan = <<>>)
        ~> (current_mode = Auto \/ mode_chan # <<>>)

\* Manual was the last signal received, 12 hours passed, and the mode is Auto
\* with nothing in the channel.
C6_Witness ==
    /\ current_mode = Auto
    /\ last_signal = <<Manual>>
    /\ since_mode_changed > REVERT_TO_AUTO_AFTER
    /\ mode_chan = <<>>
    /\ sched_pc = "adjust"

\* C5: while a device write is pending in one thread, every other thread that
\* waits for the registry can acquire it: the lock is not held during device I/O.
C5_HungWriteBlocksOnlyItsCall ==
    \A t \in Threads : \A u \in Threads \ {t} :
        (pc[t] = "write" /\ pc[u] \in {"lock", "swap"}) => lock_owner = None

\* C11: once the command handling loop has died, the supervisor ends the
\* process, whether or not another client ever connects.
C11_DeadLoopEndsProcess ==
    (handler = "panicked") ~> (main_thread = "panicked")

\* C12: a refresh swaps the collection inside one critical section and records
\* the instant: whenever the registry lock is free no refresh stands between
\* its clear and its end, what a refresh is about to publish is the complete
\* new collection, and a registry that holds monitors has its refresh instant.
C12_RefreshSwapsWhole ==
    /\ \A t \in Threads : pc[t] \in {"extend", "stamp"} => lock_owner = t
    /\ \A t \in Threads : pc[t] = "stamp" => MONITORS = new_list[t]
    /\ (lock_owner = None /\ MONITORS # <<>>) => LAST_REFRESH = SomeInstant

\* The registry is empty in the middle of a refresh that found monitors, while
\* a brightness call waits for the lock.
C12_Witness ==
    /\ pc["refresher"] = "extend"
    /\ MONITORS = <<>>
    /\ Len(new_list["refresher"]) = NumDevices
    /\ LAST_REFRESH = SomeInstant
    /\ pc["scheduler"] = "lock"

SwappedOrder == after(after(start, applied[2]), applied[1])

\* C13 as stated: any two brightness commands leave every monitor at the same
\* percent in either order.
C13_AnyPairCommutes ==
    Len(applied) = 2 => Pcts(MONITORS) = Pcts(SwappedOrder)

\* C13, amended: two increases, and two decreases, leave every monitor at the
\* same percent in either order (currents and deltas in 0..100).
C13_SameKindCommutes ==
    (/\ Len(applied) = 2
     /\ applied[1].op = applied[2].op
     /\ applied[1].op \in {"inc", "dec"}) =>
        Pcts(MONITORS) = Pcts(SwappedOrder)

\* Two different decreases of which the first alone does not reach the floor.
C13_Witness ==
    /\ Len(applied) = 2
    /\ applied[1] = [op |-> "dec", arg |-> 50]
    /\ applied[2] = [op |-> "dec", arg |-> 100]
    /\ Pcts(start) = <<100, 51>>
    /\ Pcts(MONITORS) = <<1, 1>>

\* C14: a wake of the scheduler that finds signals in the channel observes all
\* of them, the one sent last included: after it the channel is empty and the
\* mode is the one sent last.
C14_SignalSeenAtNextWake ==
    [][(sched_pc = "recv" /\ sched_pc' = "check" /\ mode_chan # <<>>) =>
          /\ mode_chan' = <<>>
          /\ current_mode' = mode_chan[Len(mode_chan)]]_vars

\* C15: over an empty registry whose lock is sound, no operation of the
\* controller (refresh, set, increase, decrease, turn_off, turn_on, average)
\* panics or poisons the lock: each returns a result or an error.
C15_EmptyRegistryNeverPanics ==
    [][(MONITORS = <<>> /\ ~poisoned /\ call.op = "none" /\ call'.op # "none") =>
          (call'.result \in {"ok", "err"} /\ ~poisoned')]_vars

\* C16: over a non-empty registry the average returned is the sum of the
\* monitors' percents divided by their number, cut to an integer, within 0..100.
C16_AverageIsFloorOfMean ==
    (call.op = "avg" /\ call.before # <<>> /\ call.log = <<>> /\ call.result = "ok") =>
        /\ call.ret * Len(call.before) <= SumPct(MONITORS, 1)
        /\ SumPct(MONITORS, 1) < (call.ret + 1) * Len(call.before)
        /\ call.ret \in 0..100
        /\ Pcts(MONITORS) = call.before

\* An average that is not a whole number: 50 and 51 give 50.
C16_Witness ==
    /\ call.op = "avg" /\ call.result = "ok"
    /\ call.before = <<50, 51>>
    /\ call.ret = 50

\* C17: turn_off / turn_on on an ACPI monitor returns an error value: the
\* batch that reaches one records an Err for it, panics nowhere and returns.
C17_AcpiPowerReturnsError ==
    call.op \in PowerOps =>
        /\ \A i \in 1..Len(call.log) :
              KindOf(call.log[i].dev) = "acpi" => call.log[i].st = "err"
        /\ \A i \in 1..Len(call.log2) :
              KindOf(call.log2[i].dev) = "acpi" => call.log2[i].st = "err"
        /\ (call.log # <<>>) => call.result \in {"ok", "err"}

\* The curve was evaluated on an ordered quadruple.
Ordered ==
    /\ curve.result.status # "idle"
    /\ curve.up_begin < curve.up_end
    /\ curve.up_end < curve.down_begin
    /\ curve.down_begin < curve.down_end

\* C18: for every ordered boundary quadruple the curve gives 1 at up_begin,
\* 100 at up_end, 100 at down_begin and 1 at down_end.
C18_BoundaryPointsOnRamps ==
    Ordered =>
        /\ curve.now \in {curve.up_begin, curve.down_end}
              => curve.result = Brightness(1)
        /\ curve.now \in {curve.up_end, curve.down_begin}
              => curve.result = Brightness(100)

\* C19: the curve gives 1 at every time at or before up_begin and at or after
\* down_end, and 100 at every time from up_end to down_begin inclusive; with
\* the fallback boundaries 06:00/10:00/18:00/22:00 it gives 1 at every whole
\* hour 00-06 and 22-23 and 100 at every whole hour 10-18.
C19_PlateausAndFallbackHours ==
    Ordered =>
        /\ (curve.now <= curve.up_begin \/ curve.now >= curve.down_end)
              => curve.result = Brightness(1)
        /\ (curve.now >= curve.up_end /\ curve.now <= curve.down_begin)
              => curve.result = Brightness(100)

\* The in-memory cache a call decided on is younger than 12 hours.
Young(c, now) ==
    c.timestamp # 0 /\ now - c.timestamp < IP_BASED_LOCATION_REFRESH_INTERVAL

\* C20: find_ip_location attempts a remote lookup only when the in-memory
\* cache, after the cache file was loaded into it, is empty or older than 12
\* hours; a cached location younger than 12 hours is returned without a
\* remote call.
C20_RemoteOnlyWhenCacheStale ==
    lookup.status # "idle" =>
        /\ lookup.remote =>
              \/ lookup.cache.timestamp = 0
              \/ lookup.now - lookup.cache.timestamp
                     > IP_BASED_LOCATION_REFRESH_INTERVAL
        /\ Young(lookup.cache, lookup.now) =>
              /\ ~lookup.remote
              /\ lookup.status = "ok"
              /\ lookup.ret = <<lookup.cache.latitude, lookup.cache.longitude>>

\* C20 witness: a call right after a start found a ten-minute-old location in
\* the cache file and returned it without a remote call.
C20_Witness ==
    /\ lookup.status = "ok"
    /\ ~lookup.remote
    /\ lookup.now - lookup.cache.timestamp = AUTO_ADJUST_INTERVAL
    /\ lookup.ret = <<51, 0>>
    /\ cache_file.kind = "toml"

\* C21: a well-formed explicit location is returned and neither the cache nor
\* the remote service is consulted, whatever the cache and the enable
\* variable are; a malformed explicit value makes the call fail, again with
\* neither consulted.
C21_ExplicitLocationWins ==
    [][ (find_location /\ env.location.kind # "unset") =>
          /\ ~resolved'.ip_called /\ ~resolved'.remote
          /\ UNCHANGED <<LAST_LOCATION_REFRESH, cache_file, lookup>>
          /\ LET parts == split_once(env.location.text)
                 good == /\ env.location.kind = "set"
                         /\ parts # <<>>
                         /\ parse(trim(parts[1])) # <<>>
                         /\ parse(trim(parts[2])) # <<>>
             IN  IF good
                 THEN /\ resolved'.status = "ok"
                      /\ resolved'.ret = <<parse(trim(parts[1]))[1],
                                           parse(trim(parts[2]))[1]>>
                 ELSE resolved'.status = "err" ]_vars

\* C21 witness: with a fresh location in the cache file and the lookup
\* enabled, the configured " 48 , 2 " was returned and the cache left alone.
C21_Witness ==
    /\ resolved.status = "ok"
    /\ resolved.ret = <<48, 2>>
    /\ Len(env.location.text) > 4
    /\ env.enable.kind = "unset"
    /\ cache_file.kind = "toml"
    /\ LAST_LOCATION_REFRESH = DefaultLocation

\* The enable variable is unset or one of 1, y, yes.
Enabled ==
    \/ env.enable.kind = "unset"
    \/ env.enable.kind = "set" /\ env.enable.text \in {"1", "y", "yes"}

\* C22: with no explicit location, find_location goes to the cache and the
\* remote lookup exactly when the enable variable is unset or 1, y or yes;
\* otherwise it returns "no location" with no network attempt, whatever the
\* cache holds.
C22_LookupEnabledExactly ==
    [][ (find_location /\ env.location.kind = "unset") =>
          /\ resolved'.ip_called <=> Enabled
          /\ ~Enabled =>
                /\ resolved'.status = "ok" /\ resolved'.ret = <<>>
                /\ ~resolved'.remote
                /\ UNCHANGED <<LAST_LOCATION_REFRESH, cache_file, lookup>> ]_vars

\* C23: after a successful remote lookup the in-memory cache holds the new
\* latitude, longitude and timestamp and find_location returns that location,
\* whether or not the directory could be created and the file written.
C23_PersistenceFailureNotPropagated ==
    [][ (find_location /\ resolved'.fetched) =>
          /\ LAST_LOCATION_REFRESH'.timestamp = clock
          /\ resolved'.status = "ok"
          /\ resolved'.ret = <<LAST_LOCATION_REFRESH'.latitude,
                               LAST_LOCATION_REFRESH'.longitude>>
          /\ resolved'.ret \in Places ]_vars

\* C24: set_brightness of a device changes the stored raw value and the stored
\* percent only when the device write succeeds; when it fails both are what
\* they were before the call.
C24_StoredOnlyOnSuccess ==
    [][ device_set_brightness =>
          /\ dev_call'.st # "ok" => device' = device
          /\ dev_call'.st = "ok" =>
                /\ device'.raw = dev_call'.wrote[1]
                /\ device'.max = device.max ]_vars

\* C24 witness: a monitor at 50 percent, raw 127 of 255, after a set_brightness
\* whose write failed.
C24_Witness ==
    /\ dev_call = DevCall("set", "err", <<>>)
    /\ device = [present |-> TRUE, max |-> 255, raw |-> 127, pct |-> 50]

\* round(p / 100 * max) to the nearest integer, halves up.
RoundedRaw(p, max) == (2 * p * max + 100) \div 200

\* C25: for every percent in 0..100 and every max_raw, set_brightness writes
\* round(percent / 100 * max_raw), rounded to the nearest integer, and the
\* value written is within 0..max_raw.
C25_WritesRoundedRaw ==
    [][ (device_set_brightness /\ dev_call'.st = "ok") =>
          /\ dev_call'.wrote[1] = RoundedRaw(device'.pct, device.max)
          /\ dev_call'.wrote[1] \in 0..device.max ]_vars

\* C26: every monitor's stored percent is current_raw * 100 / max_raw by
\* integer division and lies in 0..100, after discovery with any 16-bit raw
\* and max and after every successful set_brightness; discovery of a device
\* that reads gives a monitor.
C26_PercentDerivedFromRaw ==
    /\ dev_call.st # "panic" \/ dev_call.op # "new"
    /\ device.present =>
          /\ device.max > 0
          /\ device.pct = (device.raw * 100) \div device.max
          /\ device.pct \in 0..100

C28_EverySignalResetsTheClock ==
    /\ [][ sched_recv =>
             /\ current_mode' = Head(mode_chan)
             /\ since_mode_changed' = 0 ]_vars
    /\ [][ (current_mode = Manual /\ current_mode' = Auto /\ mode_chan' = mode_chan) =>
             since_mode_changed >= REVERT_TO_AUTO_AFTER ]_vars

\* C28 witness: in Manual, exactly 12 hours after the Manual signal received
\* last, the check has been made and the mode is still Manual.
C28_Witness ==
    /\ current_mode = Manual
    /\ last_signal = <<Manual>>
    /\ since_mode_changed = REVERT_TO_AUTO_AFTER
    /\ sched_pc = "adjust"

\* C29: every quadruple the scheduler hands to the curve, the fallback's and
\* the one of any day's sunrise and sunset, is ordered, and the curve's
\* assertions do not fail on it.
C29_SchedulerQuadruplesOrdered ==
    [][ (get_brightness_based_on_time \/ get_brightness_based_on_location) =>
          /\ curve'.up_begin < curve'.up_end
          /\ curve'.up_end < curve'.down_begin
          /\ curve'.down_begin < curve'.down_end
          /\ curve'.result.status = "ok" ]_vars

\* The manual command has been applied and the mode has not returned to Auto
\* since: its Manual signal is still in the channel, or the scheduler is in
\* Manual.
ManualInForce == applied # <<>> /\ (mode_chan # <<>> \/ current_mode = Manual)

\* C30: once a manual SetBrightness(p) has been applied, nothing changes the
\* monitors or the devices until the mode has returned to Auto, also when the
\* scheduler had started an Auto application or had an earlier Auto signal
\* queued.
C30_ManualBrightnessStays ==
    [][ ManualInForce => (Pcts(MONITORS') = Pcts(MONITORS) /\ hw' = hw) ]_vars

\* Every thread of the lock-level view stands between two operations and the
\* registry mutex is free.
Quiescent == lock_owner = None /\ \A t \in Threads : pc[t] = "idle"

\* C31: once a refresh and the brightness operations that ran beside it have
\* all completed, every monitor of the registry caches what its device holds,
\* the value written to it last: its raw value is the device's, and its
\* percent is the one written or the one read back from that raw value. A
\* refresh that read the devices before a write does not install what it read
\* after that write.
C31_RefreshNeverInstallsStaleValues ==
    Quiescent =>
        \A i \in 1..Len(MONITORS) :
            LET m == MONITORS[i] IN
            /\ m.raw = hw[m.dev]
            /\ \/ m.pct = NewPercent(hw[m.dev], m.max)
               \/ RawOfPercent(m.pct, m.max) = hw[m.dev]

\* The mutex a thread is waiting for at its place, if any.
Wants(t) ==
    IF pc[t] \in {"lock", "swap", "off_lock", "retry_lock"} THEN "MONITORS"
    ELSE IF pc[t] = "stamp" THEN "LAST_REFRESH"
    ELSE "none"

Holder(l) == IF l = "MONITORS" THEN lock_owner ELSE last_refresh_owner

\* C32: the refresh loop, the scheduler's brightness operation and a client's
\* command never deadlock on the two mutexes. A thread that waits for the
\* registry mutex does not hold it itself (the refresh after a failed batch
\* starts with the batch's guard dropped), no thread holding LAST_REFRESH
\* waits for the registry mutex, and no thread waits for a mutex whose holder
\* waits in turn for a mutex held by either of the two.
C32_NoDeadlockOnTheTwoLocks ==
    /\ \A t \in Threads :
         pc[t] \in {"enumerate", "swap", "lock", "off_lock", "retry_lock"} =>
             lock_owner # t
    /\ \A t \in Threads : last_refresh_owner = t => Wants(t) # "MONITORS"
    /\ \A t \in Threads :
         (Wants(t) # "none" /\ Holder(Wants(t)) # None) =>
             LET o == Holder(Wants(t)) IN
             /\ o # t
             /\ Wants(o) # "none" => Holder(Wants(o)) \notin {t, o}

\* C32 witness: the client's turn_off has failed on a monitor, dropped its
\* guard and stands in its refresh waiting for the registry mutex, which the
\* scheduler holds in the middle of its batch, while the refresh loop holds
\* LAST_REFRESH for its check.
C32_Witness ==
    /\ pc["session"] = "swap"
    /\ last_error["session"]
    /\ lock_owner = "scheduler"
    /\ pc["scheduler"] = "write"
    /\ last_refresh_owner = "refresher"

====
